---- MODULE Spec2Model ----
(***************************************************************************)
(* Relationship toggles and denormalized counters of the relational        *)
(* storage backend (PostgresStorage): likePhoto, followUser, unfollowUser, *)
(* likeComment, unlikeComment, createComment, getFeedPhotos; and the same  *)
(* operations of the in-memory backend (MemStorage).                       *)
(*                                                                         *)
(* A table is a bag of rows.  The primary key of a relationship row is a   *)
(* random uuid that no query of the code reads, so the bag keeps what the  *)
(* code can observe: how many rows with given column values exist.         *)
(* Entity ids (uuid) are modelled as 1..Max; the id 0 stands for an id     *)
(* a caller sends that matches no row.                                     *)
(***************************************************************************)
EXTENDS Integers, FiniteSets, Sequences, Bags, TLC

\* ---------------------------------------------------------------- bounds
MaxUsers == 2
MaxPhotos == 1
MaxComments == 1
MaxCalls == 4
MaxProcs == 2
MaxCallsShort == 3
MaxNotifications == 2
MaxUploads == 2
MaxRanked == 2

UserIds == 1..MaxUsers
PhotoIds == 1..MaxPhotos
CommentIds == 1..MaxComments
Procs == 1..MaxProcs

VARIABLES
  users,        \* schema.users:    id -> [followerCount, password, bio]
  photos,       \* schema.photos:   id -> [userId, likeCount, commentCount, isDeleted]
  comments,     \* schema.comments: id -> [photoId, likeCount]
  likes,        \* schema.likes:        bag of [userId, photoId, isDeleted]
  follows,      \* schema.follows:      bag of [followerId, followingId, isDeleted]
  commentLikes, \* schema.commentLikes: bag of [userId, commentId, isDeleted]
  last,         \* the toggle call that completed last (observer)
  prev,         \* the toggle call before it, kept when it was the same call (observer)
  calls,        \* number of toggle calls issued so far
  procs,        \* in-flight likePhoto requests: proc -> program counter and locals
  overlap,      \* TRUE once two in-flight likePhoto calls had the same (user, photo)
  memUsers,     \* MemStorage.users:    id -> [followerCount, password, bio]
  memPhotos,    \* MemStorage.photos:   id -> [userId, likeCount, commentCount]
  memComments,  \* MemStorage.comments: id -> [photoId, likeCount]
  memFollows,   \* MemStorage.follows:  id -> [followerId, followingId]
  currentFollowId, \* MemStorage.currentFollowId
  memLast,      \* the MemStorage call that returned last (observer)
  notifications,    \* schema.notifications:    id -> [userId, read]
  memNotifications, \* MemStorage.notifications: id -> [userId, read]
  uploads,      \* number of files in the uploads directory
  res           \* status code of the response sent last (0: none yet)

memVars == <<memUsers, memPhotos, memComments, memFollows, currentFollowId, memLast,
             memNotifications>>

\* what the request handlers of registerRoutes hold besides the storage
httpVars == <<uploads, res>>

vars == <<users, photos, comments, likes, follows, commentLikes, last, prev, calls,
          procs, overlap, notifications, memVars, httpVars>>

\* ------------------------------------------------------- query primitives
RECURSIVE SumCopies(_, _)
SumCopies(table, rows) ==
  IF rows = {} THEN 0
  ELSE LET r == CHOOSE x \in rows : TRUE
       IN  table[r] + SumCopies(table, rows \ {r})

\* A where clause is the set of rows of the table that satisfy it.
\* db.select().from(table).where(hit) ... .length
SelectCount(table, hit) == SumCopies(table, hit \cap BagToSet(table))

\* db.insert(table).values(row)
InsertRow(table, row) == table (+) SetToBag({row})

\* db.update(table).set({ isDeleted: v }).where(hit)
UpdateIsDeleted(table, hit, v) ==
  LET old == BagToSet(table)
      New(r) == IF r \in hit THEN [r EXCEPT !.isDeleted = v] ELSE r
      Src(n) == {r \in old : New(r) = n}
  IN  [n \in {New(r) : r \in old} |-> SumCopies(table, Src(n))]

\* db.delete(table).where(hit)
DeleteRows(table, hit) ==
  [r \in BagToSet(table) \ hit |-> table[r]]

\* const [row] = await db.select().from(entity).where(eq(entity.id, id))
\* row is undefined when no row matches
Found(entity, id) == id \in DOMAIN entity

\* ------------------------------------------------------------ row shapes
Like(u, p, d) == [userId |-> u, photoId |-> p, isDeleted |-> d]
Follow(f, t, d) == [followerId |-> f, followingId |-> t, isDeleted |-> d]
CommentLike(u, c, d) == [userId |-> u, commentId |-> c, isDeleted |-> d]

\* rows of one (actor, target) pair, by flag
LikeRows(t, u, p, d) == SelectCount(t, {Like(u, p, d)})
FollowRows(t, f, g, d) == SelectCount(t, {Follow(f, g, d)})
CommentLikeRows(t, u, c, d) == SelectCount(t, {CommentLike(u, c, d)})

\* ------------------------------------------------------------- observer
None == [op |-> "none", actor |-> 0, target |-> 0, pre |-> 0,
         preLive |-> 0, preDeleted |-> 0, err |-> "none"]

Call(op, a, t, pre, live, del, err) ==
  [op |-> op, actor |-> a, target |-> t, pre |-> pre,
   preLive |-> live, preDeleted |-> del, err |-> err]

SameCall(x, y) == x.op = y.op /\ x.actor = y.actor /\ x.target = y.target

Observe(c) ==
  /\ last' = c
  /\ prev' = IF SameCall(last, c) THEN last ELSE None

Idle == [pc |-> "idle", userId |-> 0, photoId |-> 0, hasLiked |-> 0,
         hasDeleted |-> 0, found |-> FALSE, likeCount |-> 0]

\* MemStorage's constructor: empty maps, every id counter at 1
MemNone == [op |-> "none", target |-> 0, pre |-> 0, err |-> "none"]

MemInit ==
  /\ memUsers = <<>>
  /\ memPhotos = <<>>
  /\ memComments = <<>>
  /\ memFollows = <<>>
  /\ currentFollowId = 1
  /\ memLast = MemNone
  /\ memNotifications = <<>>

RelInit ==
  /\ users = <<>>
  /\ photos = <<>>
  /\ comments = <<>>
  /\ likes = EmptyBag
  /\ follows = EmptyBag
  /\ commentLikes = EmptyBag
  /\ last = None
  /\ prev = None
  /\ calls = 0
  /\ procs = [i \in Procs |-> Idle]
  /\ overlap = FALSE
  /\ notifications = <<>>

\* no file uploaded and no response sent
HttpInit == uploads = 0 /\ res = 0

Init == MemInit /\ RelInit /\ HttpInit

\* --------------------------------------------------------------- creates
createUser ==
  /\ Cardinality(DOMAIN users) < MaxUsers
  /\ users' = users @@ (Cardinality(DOMAIN users) + 1 :>
                [followerCount |-> 0, password |-> "hash", bio |-> 0])
  /\ UNCHANGED <<photos, comments, likes, follows, commentLikes, last, prev, calls,
                 procs, overlap>>
  /\ UNCHANGED notifications

createPhoto(userId) ==
  /\ Cardinality(DOMAIN photos) < MaxPhotos
  /\ photos' = photos @@ (Cardinality(DOMAIN photos) + 1 :>
                 [userId |-> userId, likeCount |-> 0, commentCount |-> 0,
                  isDeleted |-> FALSE])
  /\ UNCHANGED <<users, comments, likes, follows, commentLikes, last, prev, calls,
                 procs, overlap>>
  /\ UNCHANGED notifications

\* set({ commentCount: photo.commentCount + 1 }); photo.commentCount of an
\* undefined photo throws after the comment was inserted
createComment_photos(t, photoId) ==
  IF Found(t, photoId) THEN [t EXCEPT ![photoId].commentCount = @ + 1] ELSE t

createComment(userId, photoId) ==
  /\ Cardinality(DOMAIN comments) < MaxComments
  /\ comments' = comments @@ (Cardinality(DOMAIN comments) + 1 :>
                   [photoId |-> photoId, likeCount |-> 0])
  /\ photos' = createComment_photos(photos, photoId)
  /\ UNCHANGED <<users, likes, follows, commentLikes, last, prev, calls, procs, overlap>>
  /\ UNCHANGED notifications

\* ------------------------------------------------------------- likePhoto
\* where(and(eq(likes.userId, userId), eq(likes.photoId, photoId))) ... .length
likePhoto_hasLiked(t, userId, photoId) ==
  SelectCount(t, {r \in BagToSet(t) : r.userId = userId /\ r.photoId = photoId})

\* ... eq(likes.isDeleted, true) ... .length
likePhoto_hasDeleted(t, userId, photoId) ==
  SelectCount(t, {r \in BagToSet(t) : r.userId = userId /\ r.photoId = photoId
                                      /\ r.isDeleted})

\* the re-like written as a second row instead of clearing the flag
likePhoto_likes_reinsert(t, userId, photoId, hasLiked, hasDeleted) ==
  IF hasLiked = 0 \/ hasDeleted # 0
  THEN InsertRow(t, Like(userId, photoId, FALSE))
  ELSE UpdateIsDeleted(t, {r \in BagToSet(t) : r.userId = userId /\ r.photoId = photoId
                                      /\ ~r.isDeleted}, TRUE)

\* the un-like written without the userId condition: every active like of the
\* photo is flagged
likePhoto_likes_anyUser(t, userId, photoId, hasLiked, hasDeleted) ==
  IF hasLiked = 0
  THEN InsertRow(t, Like(userId, photoId, FALSE))
  ELSE IF hasDeleted # 0
  THEN UpdateIsDeleted(t, {r \in BagToSet(t) : r.userId = userId /\ r.photoId = photoId
                                      /\ r.isDeleted}, FALSE)
  ELSE UpdateIsDeleted(t, {r \in BagToSet(t) : r.photoId = photoId /\ ~r.isDeleted}, TRUE)

\* the write to schema.likes chosen by the if / else if / fall-through
likePhoto_likes(t, userId, photoId, hasLiked, hasDeleted) ==
  IF hasLiked = 0
  THEN InsertRow(t, Like(userId, photoId, FALSE))
  ELSE IF hasDeleted # 0
  THEN UpdateIsDeleted(t, {r \in BagToSet(t) : r.userId = userId /\ r.photoId = photoId
                                      /\ r.isDeleted}, FALSE)
  ELSE UpdateIsDeleted(t, {r \in BagToSet(t) : r.userId = userId /\ r.photoId = photoId
                                      /\ ~r.isDeleted}, TRUE)

\* mutant: the re-like of a soft-deleted row counted as an unlike
likePhoto_delta_noRelike(hasLiked, hasDeleted) ==
  IF hasLiked = 0 THEN 1 ELSE -1

\* photo.likeCount + 1 in the first two branches, photo.likeCount - 1 in the last
likePhoto_delta(hasLiked, hasDeleted) ==
  IF hasLiked = 0 \/ hasDeleted # 0 THEN 1 ELSE -1

\* set({ likeCount: photo.likeCount +- 1 }).where(eq(photos.id, photoId));
\* reading photo.likeCount of an undefined photo throws before the update
likePhoto_photos(t, photoId, found, likeCount, delta) ==
  IF found /\ Found(t, photoId)
  THEN [t EXCEPT ![photoId].likeCount = likeCount + delta]
  ELSE t

\* likePhoto followed by an insert into notifications for the photo's owner
likePhoto_notifying(userId, photoId) ==
  /\ calls < MaxCalls
  /\ LET hasLiked == likePhoto_hasLiked(likes, userId, photoId)
         hasDeleted == likePhoto_hasDeleted(likes, userId, photoId)
         found == Found(photos, photoId)
         likeCount == IF found THEN photos[photoId].likeCount ELSE 0
     IN  /\ likes' = likePhoto_likes(likes, userId, photoId, hasLiked, hasDeleted)
         /\ photos' = likePhoto_photos(photos, photoId, found, likeCount,
                                        likePhoto_delta(hasLiked, hasDeleted))
         /\ Observe(Call("likePhoto", userId, photoId, likeCount,
                         LikeRows(likes, userId, photoId, FALSE),
                         LikeRows(likes, userId, photoId, TRUE),
                         IF found THEN "none" ELSE "TypeError"))
  /\ calls' = calls + 1
  /\ UNCHANGED <<users, comments, follows, commentLikes, procs, overlap>>
  /\ notifications' = IF Cardinality(DOMAIN notifications) < MaxNotifications
                      THEN notifications @@ (Cardinality(DOMAIN notifications) + 1 :>
                             [userId |-> userId, read |-> FALSE])
                      ELSE notifications

likePhoto(userId, photoId) ==
  /\ calls < MaxCalls
  /\ LET hasLiked == likePhoto_hasLiked(likes, userId, photoId)
         hasDeleted == likePhoto_hasDeleted(likes, userId, photoId)
         found == Found(photos, photoId)
         likeCount == IF found THEN photos[photoId].likeCount ELSE 0
     IN  /\ likes' = likePhoto_likes(likes, userId, photoId, hasLiked, hasDeleted)
         /\ photos' = likePhoto_photos(photos, photoId, found, likeCount,
                                        likePhoto_delta(hasLiked, hasDeleted))
         /\ Observe(Call("likePhoto", userId, photoId, likeCount,
                         LikeRows(likes, userId, photoId, FALSE),
                         LikeRows(likes, userId, photoId, TRUE),
                         IF found THEN "none" ELSE "TypeError"))
  /\ calls' = calls + 1
  /\ UNCHANGED <<users, comments, follows, commentLikes, procs, overlap>>
  /\ UNCHANGED notifications

\* where(and(eq(follows.followerId, followerId), eq(follows.followingId,
\* followingId), eq(follows.isDeleted, false))); return follows.length > 0
isFollowing(t, followerId, followingId) ==
  SelectCount(t, {r \in BagToSet(t) : /\ r.followerId = followerId
                                      /\ r.followingId = followingId
                                      /\ r.isDeleted = FALSE}) > 0

\* ------------------------------------------- getFollowers, getLikedUsers
\* from(follows).where(eq(follows.followingId, userId))
\*   .innerJoin(users, eq(users.id, follows.followerId)): one entry per joined
\* row, so the result is the bag of follower ids (each standing for its row
\* of users); the where clause does not look at isDeleted
getFollowers(followsT, usersT, userId) ==
  LET n(f) == SelectCount(followsT, {r \in BagToSet(followsT) :
                                       r.followingId = userId /\ r.followerId = f})
  IN  [f \in {f \in DOMAIN usersT : n(f) > 0} |-> n(f)]

\* from(likes).where(eq(likes.photoId, photoId))
\*   .innerJoin(users, eq(users.id, likes.userId))
getLikedUsers(likesT, usersT, photoId) ==
  LET n(u) == SelectCount(likesT, {r \in BagToSet(likesT) :
                                     r.photoId = photoId /\ r.userId = u})
  IN  [u \in {u \in DOMAIN usersT : n(u) > 0} |-> n(u)]

\* ------------------------------------------------ followUser, unfollowUser
followUser_isFollower(t, followerId, followingId) ==
  SelectCount(t, {r \in BagToSet(t) : r.followerId = followerId
                                      /\ r.followingId = followingId})

\* the insert without the look-up of an existing row
followUser_follows_alwaysInsert(t, followerId, followingId, isFollower, found) ==
  InsertRow(t, Follow(followerId, followingId, FALSE))

\* if (isFollower): the counter is written first, user.followerCount of an
\* undefined user throws before any write; otherwise the row is inserted first
followUser_follows(t, followerId, followingId, isFollower, found) ==
  IF isFollower # 0
  THEN IF found
       THEN UpdateIsDeleted(t, {r \in BagToSet(t) : r.followerId = followerId
                                           /\ r.followingId = followingId}, FALSE)
       ELSE t
  ELSE InsertRow(t, Follow(followerId, followingId, FALSE))

\* set({ followerCount: user.followerCount + 1 }) in both branches
followUser_users(t, followingId, found) ==
  IF found THEN [t EXCEPT ![followingId].followerCount = @ + 1] ELSE t

followUser(followerId, followingId) ==
  /\ calls < MaxCalls
  /\ LET isFollower == followUser_isFollower(follows, followerId, followingId)
         found == Found(users, followingId)
     IN  /\ follows' = followUser_follows(follows, followerId, followingId,
                                           isFollower, found)
         /\ users' = followUser_users(users, followingId, found)
         /\ Observe(Call("followUser", followerId, followingId,
                         IF found THEN users[followingId].followerCount ELSE 0,
                         FollowRows(follows, followerId, followingId, FALSE),
                         FollowRows(follows, followerId, followingId, TRUE),
                         IF found THEN "none" ELSE "TypeError"))
  /\ calls' = calls + 1
  /\ UNCHANGED <<photos, comments, likes, commentLikes, procs, overlap>>
  /\ UNCHANGED notifications

\* set({ followerCount: user.followerCount - 1 }), no clamp, no look at the rows
unfollowUser_users(t, followingId, found) ==
  IF found THEN [t EXCEPT ![followingId].followerCount = @ - 1] ELSE t

\* set({ isDeleted: true }) on every row of the pair; not reached when the
\* counter update threw
unfollowUser_follows(t, followerId, followingId, found) ==
  IF found
  THEN UpdateIsDeleted(t, {r \in BagToSet(t) : r.followerId = followerId
                                      /\ r.followingId = followingId}, TRUE)
  ELSE t

unfollowUser(followerId, followingId) ==
  /\ calls < MaxCalls
  /\ LET found == Found(users, followingId)
     IN  /\ users' = unfollowUser_users(users, followingId, found)
         /\ follows' = unfollowUser_follows(follows, followerId, followingId, found)
         /\ Observe(Call("unfollowUser", followerId, followingId,
                         IF found THEN users[followingId].followerCount ELSE 0,
                         FollowRows(follows, followerId, followingId, FALSE),
                         FollowRows(follows, followerId, followingId, TRUE),
                         IF found THEN "none" ELSE "TypeError"))
  /\ calls' = calls + 1
  /\ UNCHANGED <<photos, comments, likes, commentLikes, procs, overlap>>
  /\ UNCHANGED notifications

\* --------------------------------------------------------- getFeedPhotos
\* follows.map(f => f.followingId) with every follow of the user, flagged or not
getFeedPhotos_allFollows(followsT, photosT, userId) ==
  LET followingIds == {r.followingId : r \in {x \in BagToSet(followsT) :
                                                x.followerId = userId}}
  IN  {p \in DOMAIN photosT :
         \/ photosT[p].userId \in followingIds
         \/ photosT[p].isDeleted = FALSE /\ photosT[p].userId = userId}

\* follows: where(and(eq(follows.followerId, userId), eq(follows.isDeleted, false)))
\* photos:  where(or(inArray(photos.userId, followingIds),
\*                   and(eq(photos.isDeleted, false), eq(photos.userId, userId))))
\* The result is the set of ids of the rows returned; their order is left out.
getFeedPhotos(followsT, photosT, userId) ==
  LET followingIds == {r.followingId : r \in {x \in BagToSet(followsT) :
                                                x.followerId = userId
                                                /\ x.isDeleted = FALSE}}
  IN  {p \in DOMAIN photosT :
         \/ photosT[p].userId \in followingIds
         \/ photosT[p].isDeleted = FALSE /\ photosT[p].userId = userId}

\* ------------------------------------------------ likeComment, unlikeComment
likeComment_hasLiked(t, userId, commentId) ==
  SelectCount(t, {r \in BagToSet(t) : r.userId = userId /\ r.commentId = commentId})

likeComment_hasDeleted(t, userId, commentId) ==
  SelectCount(t, {r \in BagToSet(t) : r.userId = userId /\ r.commentId = commentId
                                      /\ r.isDeleted})

likeComment_commentLikes(t, userId, commentId, hasLiked, hasDeleted) ==
  IF hasLiked = 0
  THEN InsertRow(t, CommentLike(userId, commentId, FALSE))
  ELSE IF hasDeleted # 0
  THEN UpdateIsDeleted(t, {r \in BagToSet(t) : r.userId = userId /\ r.commentId = commentId
                                      /\ r.isDeleted}, FALSE)
  ELSE UpdateIsDeleted(t, {r \in BagToSet(t) : r.userId = userId /\ r.commentId = commentId
                                      /\ ~r.isDeleted}, TRUE)

\* mutant: the re-like of a soft-deleted row counted as an unlike
likeComment_delta_noRelike(hasLiked, hasDeleted) ==
  IF hasLiked = 0 THEN 1 ELSE -1

\* comment.likeCount + 1 in the first two branches, comment.likeCount - 1 in the last
likeComment_delta(hasLiked, hasDeleted) ==
  IF hasLiked = 0 \/ hasDeleted # 0 THEN 1 ELSE -1

likeComment_comments(t, commentId, found, likeCount, delta) ==
  IF found /\ Found(t, commentId)
  THEN [t EXCEPT ![commentId].likeCount = likeCount + delta]
  ELSE t

likeComment(userId, commentId) ==
  /\ calls < MaxCalls
  /\ LET hasLiked == likeComment_hasLiked(commentLikes, userId, commentId)
         hasDeleted == likeComment_hasDeleted(commentLikes, userId, commentId)
         found == Found(comments, commentId)
         likeCount == IF found THEN comments[commentId].likeCount ELSE 0
     IN  /\ commentLikes' = likeComment_commentLikes(commentLikes, userId, commentId,
                                                     hasLiked, hasDeleted)
         /\ comments' = likeComment_comments(comments, commentId, found, likeCount,
                                             likeComment_delta(hasLiked, hasDeleted))
         /\ Observe(Call("likeComment", userId, commentId, likeCount,
                         CommentLikeRows(commentLikes, userId, commentId, FALSE),
                         CommentLikeRows(commentLikes, userId, commentId, TRUE),
                         IF found THEN "none" ELSE "TypeError"))
  /\ calls' = calls + 1
  /\ UNCHANGED <<users, photos, likes, follows, procs, overlap>>
  /\ UNCHANGED notifications

\* db.delete(schema.commentLikes).where(userId, commentId): the rows are removed
unlikeComment_commentLikes(t, userId, commentId) ==
  DeleteRows(t, {r \in BagToSet(t) : r.userId = userId /\ r.commentId = commentId})

\* set({ likeCount: schema.comments.likeCount - 1 }): the operand is the column
\* object, not a number, so the value sent is NaN; an integer column takes no
\* NaN, the statement fails and no likeCount is written
unlikeComment_comments(t, commentId) == t

unlikeComment(userId, commentId) ==
  /\ calls < MaxCalls
  /\ commentLikes' = unlikeComment_commentLikes(commentLikes, userId, commentId)
  /\ comments' = unlikeComment_comments(comments, commentId)
  /\ Observe(Call("unlikeComment", userId, commentId,
                  IF Found(comments, commentId) THEN comments[commentId].likeCount ELSE 0,
                  CommentLikeRows(commentLikes, userId, commentId, FALSE),
                  CommentLikeRows(commentLikes, userId, commentId, TRUE),
                  "DbError"))
  /\ calls' = calls + 1
  /\ UNCHANGED <<users, photos, likes, follows, procs, overlap>>
  /\ UNCHANGED notifications

\* ------------------------------------------- calls one after the other
\* The callers are logged-in users (req.user.id); the target id comes from
\* the request path and may match no row (0).
Next ==
  \/ createUser /\ UNCHANGED <<memVars, httpVars>>
  \/ \E u \in DOMAIN users : createPhoto(u) /\ UNCHANGED <<memVars, httpVars>>
  \/ \E u \in DOMAIN users, p \in DOMAIN photos \cup {0} : createComment(u, p) /\ UNCHANGED <<memVars, httpVars>>
  \/ \E u \in DOMAIN users, p \in DOMAIN photos \cup {0} : likePhoto(u, p) /\ UNCHANGED <<memVars, httpVars>>
  \/ \E f \in DOMAIN users, g \in DOMAIN users \cup {0} : followUser(f, g) /\ UNCHANGED <<memVars, httpVars>>
  \/ \E f \in DOMAIN users, g \in DOMAIN users \cup {0} : unfollowUser(f, g) /\ UNCHANGED <<memVars, httpVars>>
  \/ \E u \in DOMAIN users, c \in DOMAIN comments \cup {0} : likeComment(u, c) /\ UNCHANGED <<memVars, httpVars>>
  \/ \E u \in DOMAIN users, c \in DOMAIN comments \cup {0} : unlikeComment(u, c) /\ UNCHANGED <<memVars, httpVars>>

Spec == Init /\ [][Next]_vars

\* likes alone: schema.likes and photos.likeCount
NextLike ==
  \/ createUser /\ UNCHANGED <<memVars, httpVars>>
  \/ \E u \in DOMAIN users : createPhoto(u) /\ UNCHANGED <<memVars, httpVars>>
  \/ \E u \in DOMAIN users, p \in DOMAIN photos \cup {0} : likePhoto(u, p) /\ UNCHANGED <<memVars, httpVars>>

SpecLike == Init /\ [][NextLike]_vars

\* follows alone: schema.follows and users.followerCount
NextFollow ==
  \/ createUser /\ UNCHANGED <<memVars, httpVars>>
  \/ \E f \in DOMAIN users, g \in DOMAIN users \cup {0} : followUser(f, g) /\ UNCHANGED <<memVars, httpVars>>
  \/ \E f \in DOMAIN users, g \in DOMAIN users \cup {0} : unfollowUser(f, g) /\ UNCHANGED <<memVars, httpVars>>

SpecFollow == Init /\ [][NextFollow]_vars

\* comment likes alone: schema.commentLikes and comments.likeCount
NextComment ==
  \/ createUser /\ UNCHANGED <<memVars, httpVars>>
  \/ \E u \in DOMAIN users : createPhoto(u) /\ UNCHANGED <<memVars, httpVars>>
  \/ \E u \in DOMAIN users, p \in DOMAIN photos \cup {0} : createComment(u, p) /\ UNCHANGED <<memVars, httpVars>>
  \/ \E u \in DOMAIN users, c \in DOMAIN comments \cup {0} : likeComment(u, c) /\ UNCHANGED <<memVars, httpVars>>
  \/ \E u \in DOMAIN users, c \in DOMAIN comments \cup {0} : unlikeComment(u, c) /\ UNCHANGED <<memVars, httpVars>>

SpecComment == Init /\ [][NextComment]_vars

\* the two like toggles on a store that already holds its users, photos and
\* comments (the state after MaxUsers createUser, MaxPhotos createPhoto and
\* MaxComments createComment calls)
InitPopulated ==
  /\ MemInit
  /\ HttpInit
  /\ users = [u \in UserIds |-> [followerCount |-> 0, password |-> "hash", bio |-> 0]]
  /\ photos = [p \in PhotoIds |->
                 [userId |-> ((p - 1) % MaxUsers) + 1, likeCount |-> 0,
                  commentCount |-> Cardinality({c \in CommentIds :
                                                  ((c - 1) % MaxPhotos) + 1 = p}),
                  isDeleted |-> FALSE]]
  /\ comments = [c \in CommentIds |->
                   [photoId |-> ((c - 1) % MaxPhotos) + 1, likeCount |-> 0]]
  /\ likes = EmptyBag
  /\ follows = EmptyBag
  /\ commentLikes = EmptyBag
  /\ last = None
  /\ prev = None
  /\ calls = 0
  /\ procs = [i \in Procs |-> Idle]
  /\ overlap = FALSE
  /\ notifications = <<>>

NextPopulated ==
  \/ \E u \in DOMAIN users, p \in DOMAIN photos : likePhoto(u, p) /\ UNCHANGED <<memVars, httpVars>>
  \/ \E u \in DOMAIN users, c \in DOMAIN comments : likeComment(u, c) /\ UNCHANGED <<memVars, httpVars>>
  \/ \E u \in DOMAIN users, c \in DOMAIN comments : unlikeComment(u, c) /\ UNCHANGED <<memVars, httpVars>>

SpecPopulated == InitPopulated /\ [][NextPopulated]_vars

\* ------------------------------------------- likePhoto calls that overlap
\* Every await of likePhoto is one step; the steps of requests in flight
\* interleave freely (one event loop, no transaction, no lock).
InFlight(i) == procs[i].pc # "idle"

Quiescent == \A i \in Procs : ~InFlight(i)

likePhoto_start(i, userId, photoId) ==
  /\ calls < MaxCalls
  /\ ~InFlight(i)
  /\ procs' = [procs EXCEPT ![i] = [Idle EXCEPT !.pc = "hasLiked",
                                                 !.userId = userId,
                                                 !.photoId = photoId]]
  /\ overlap' = (overlap \/ \E j \in Procs \ {i} :
                               /\ InFlight(j)
                               /\ procs[j].userId = userId
                               /\ procs[j].photoId = photoId)
  /\ calls' = calls + 1
  /\ UNCHANGED <<users, photos, comments, likes, follows, commentLikes, last, prev>>
  /\ UNCHANGED notifications

likePhoto_await1(i) ==
  /\ procs[i].pc = "hasLiked"
  /\ procs' = [procs EXCEPT ![i].pc = "hasDeleted",
                            ![i].hasLiked =
                               likePhoto_hasLiked(likes, procs[i].userId, procs[i].photoId)]
  /\ UNCHANGED <<users, photos, comments, likes, follows, commentLikes, last, prev,
                 calls, overlap>>
  /\ UNCHANGED notifications

likePhoto_await2(i) ==
  /\ procs[i].pc = "hasDeleted"
  /\ procs' = [procs EXCEPT ![i].pc = "photo",
                            ![i].hasDeleted =
                               likePhoto_hasDeleted(likes, procs[i].userId, procs[i].photoId)]
  /\ UNCHANGED <<users, photos, comments, likes, follows, commentLikes, last, prev,
                 calls, overlap>>
  /\ UNCHANGED notifications

likePhoto_await3(i) ==
  /\ procs[i].pc = "photo"
  /\ procs' = [procs EXCEPT ![i].pc = "likes",
                            ![i].found = Found(photos, procs[i].photoId),
                            ![i].likeCount = IF Found(photos, procs[i].photoId)
                                             THEN photos[procs[i].photoId].likeCount
                                             ELSE 0]
  /\ UNCHANGED <<users, photos, comments, likes, follows, commentLikes, last, prev,
                 calls, overlap>>
  /\ UNCHANGED notifications

likePhoto_await4(i) ==
  /\ procs[i].pc = "likes"
  /\ likes' = likePhoto_likes(likes, procs[i].userId, procs[i].photoId,
                              procs[i].hasLiked, procs[i].hasDeleted)
  /\ procs' = [procs EXCEPT ![i].pc = "photos"]
  /\ UNCHANGED <<users, photos, comments, follows, commentLikes, last, prev,
                 calls, overlap>>
  /\ UNCHANGED notifications

likePhoto_await5(i) ==
  /\ procs[i].pc = "photos"
  /\ photos' = likePhoto_photos(photos, procs[i].photoId, procs[i].found,
                                procs[i].likeCount,
                                likePhoto_delta(procs[i].hasLiked, procs[i].hasDeleted))
  /\ procs' = [procs EXCEPT ![i] = Idle]
  /\ UNCHANGED <<users, comments, likes, follows, commentLikes, last, prev,
                 calls, overlap>>
  /\ UNCHANGED notifications

NextLikeConc ==
  \/ createUser /\ UNCHANGED <<memVars, httpVars>>
  \/ \E u \in DOMAIN users : createPhoto(u) /\ UNCHANGED <<memVars, httpVars>>
  \/ \E i \in Procs, u \in DOMAIN users, p \in DOMAIN photos \cup {0} :
       likePhoto_start(i, u, p) /\ UNCHANGED <<memVars, httpVars>>
  \/ \E i \in Procs : likePhoto_await1(i) /\ UNCHANGED <<memVars, httpVars>>
  \/ \E i \in Procs : likePhoto_await2(i) /\ UNCHANGED <<memVars, httpVars>>
  \/ \E i \in Procs : likePhoto_await3(i) /\ UNCHANGED <<memVars, httpVars>>
  \/ \E i \in Procs : likePhoto_await4(i) /\ UNCHANGED <<memVars, httpVars>>
  \/ \E i \in Procs : likePhoto_await5(i) /\ UNCHANGED <<memVars, httpVars>>

SpecLikeConc == Init /\ [][NextLikeConc]_vars

\* ------------------------------------------ followUser calls that overlap
\* Every await of followUser is one step.  The locals of a call in flight:
\* isFollower and user (found, followerCount) as read by its two selects.
followUser_start(i, followerId, followingId) ==
  /\ calls < MaxCalls
  /\ ~InFlight(i)
  /\ procs' = [procs EXCEPT ![i] = [pc |-> "isFollower", followerId |-> followerId,
                                    followingId |-> followingId, isFollower |-> 0,
                                    found |-> FALSE, followerCount |-> 0]]
  /\ calls' = calls + 1
  /\ UNCHANGED <<users, photos, comments, likes, follows, commentLikes, last, prev,
                 overlap, notifications>>

\* const isFollower = (await db.select().from(schema.follows).where(...)).length
followUser_await1(i) ==
  /\ procs[i].pc = "isFollower"
  /\ procs' = [procs EXCEPT ![i].pc = "user",
                            ![i].isFollower =
                               followUser_isFollower(follows, procs[i].followerId,
                                                     procs[i].followingId)]
  /\ UNCHANGED <<users, photos, comments, likes, follows, commentLikes, last, prev,
                 calls, overlap, notifications>>

\* const [user] = await db.select().from(schema.users).where(eq(users.id, followingId));
\* with a row of the pair the next statement evaluates user.followerCount and
\* throws on an undefined user, without one the insert comes first
followUser_await2(i) ==
  /\ procs[i].pc = "user"
  /\ LET found == Found(users, procs[i].followingId)
     IN  procs' = IF procs[i].isFollower # 0 /\ ~found
                  THEN [procs EXCEPT ![i] = Idle]
                  ELSE [procs EXCEPT ![i].pc = "write1",
                                     ![i].found = found,
                                     ![i].followerCount =
                                        IF found
                                        THEN users[procs[i].followingId].followerCount
                                        ELSE 0]
  /\ UNCHANGED <<users, photos, comments, likes, follows, commentLikes, last, prev,
                 calls, overlap, notifications>>

\* set({ followerCount: user.followerCount + 1 }) with the value the call read
followUser_set(t, followingId, followerCount) ==
  IF Found(t, followingId)
  THEN [t EXCEPT ![followingId].followerCount = followerCount + 1]
  ELSE t

\* the first write: the users update when a row of the pair was found, the
\* insert otherwise (and then user.followerCount throws on an undefined user)
followUser_await3(i) ==
  /\ procs[i].pc = "write1"
  /\ IF procs[i].isFollower # 0
     THEN /\ users' = followUser_set(users, procs[i].followingId, procs[i].followerCount)
          /\ procs' = [procs EXCEPT ![i].pc = "write2"]
          /\ UNCHANGED follows
     ELSE /\ follows' = InsertRow(follows, Follow(procs[i].followerId,
                                                  procs[i].followingId, FALSE))
          /\ procs' = IF procs[i].found
                      THEN [procs EXCEPT ![i].pc = "write2"]
                      ELSE [procs EXCEPT ![i] = Idle]
          /\ UNCHANGED users
  /\ UNCHANGED <<photos, comments, likes, commentLikes, last, prev, calls, overlap,
                 notifications>>

\* the second write: the follows update when a row of the pair was found, the
\* users update otherwise
followUser_await4(i) ==
  /\ procs[i].pc = "write2"
  /\ IF procs[i].isFollower # 0
     THEN /\ follows' = UpdateIsDeleted(follows,
                          {r \in BagToSet(follows) :
                             /\ r.followerId = procs[i].followerId
                             /\ r.followingId = procs[i].followingId}, FALSE)
          /\ UNCHANGED users
     ELSE /\ users' = followUser_set(users, procs[i].followingId, procs[i].followerCount)
          /\ UNCHANGED follows
  /\ procs' = [procs EXCEPT ![i] = Idle]
  /\ UNCHANGED <<photos, comments, likes, commentLikes, last, prev, calls, overlap,
                 notifications>>

\* first follows only: a call is issued for a pair that has no row and no
\* call in flight, on a user that exists
FirstFollow(f, g) ==
  /\ followUser_isFollower(follows, f, g) = 0
  /\ \A j \in Procs : InFlight(j) => ~(procs[j].followerId = f /\ procs[j].followingId = g)

NextFollowConc ==
  \/ createUser /\ UNCHANGED <<memVars, httpVars>>
  \/ \E i \in Procs, f \in DOMAIN users, g \in DOMAIN users :
       FirstFollow(f, g) /\ followUser_start(i, f, g) /\ UNCHANGED <<memVars, httpVars>>
  \/ \E i \in Procs : followUser_await1(i) /\ UNCHANGED <<memVars, httpVars>>
  \/ \E i \in Procs : followUser_await2(i) /\ UNCHANGED <<memVars, httpVars>>
  \/ \E i \in Procs : followUser_await3(i) /\ UNCHANGED <<memVars, httpVars>>
  \/ \E i \in Procs : followUser_await4(i) /\ UNCHANGED <<memVars, httpVars>>

SpecFollowConc == Init /\ [][NextFollowConc]_vars

\* --------------------------------------------------------- notifications
\* db.insert(schema.notifications).values({ userId, actorId, type, ... });
\* the read column defaults to false.  actorId, type, photoId and commentId
\* are stored and read by no statement of the storage classes.
createNotification(userId, actorId) ==
  /\ calls < MaxCalls
  /\ Cardinality(DOMAIN notifications) < MaxNotifications
  /\ notifications' = notifications @@ (Cardinality(DOMAIN notifications) + 1 :>
                        [userId |-> userId, read |-> FALSE])
  /\ Observe(Call("createNotification", actorId, userId, 0, 0, 0, "none"))
  /\ calls' = calls + 1
  /\ UNCHANGED <<users, photos, comments, likes, follows, commentLikes, procs, overlap>>

\* the update with its where clause dropped: every notification is set read
markNotificationAsRead_notifications_all(t, notificationId) ==
  [n \in DOMAIN t |-> [t[n] EXCEPT !.read = TRUE]]

\* update(schema.notifications).set({ read: true }).where(eq(notifications.id, notificationId))
markNotificationAsRead_notifications(t, notificationId) ==
  [n \in DOMAIN t |-> IF n = notificationId THEN [t[n] EXCEPT !.read = TRUE] ELSE t[n]]

markNotificationAsRead(notificationId) ==
  /\ calls < MaxCalls
  /\ notifications' = markNotificationAsRead_notifications(notifications, notificationId)
  /\ Observe(Call("markNotificationAsRead", 0, notificationId, 0, 0, 0, "none"))
  /\ calls' = calls + 1
  /\ UNCHANGED <<users, photos, comments, likes, follows, commentLikes, procs, overlap>>

\* update(schema.notifications).set({ read: true }).where(eq(notifications.userId, userId))
markAllNotificationsAsRead_notifications(t, userId) ==
  [n \in DOMAIN t |-> IF t[n].userId = userId THEN [t[n] EXCEPT !.read = TRUE] ELSE t[n]]

markAllNotificationsAsRead(userId) ==
  /\ calls < MaxCalls
  /\ notifications' = markAllNotificationsAsRead_notifications(notifications, userId)
  /\ Observe(Call("markAllNotificationsAsRead", userId, 0, 0, 0, 0, "none"))
  /\ calls' = calls + 1
  /\ UNCHANGED <<users, photos, comments, likes, follows, commentLikes, procs, overlap>>

\* ----------------------------------------------------- updateUserProfile
\* update(schema.users).set({ bio: bio || null, ... }).where(eq(users.id, userId));
\* avatarUrl and displayName are set by the same statement in the same way.
\* bio 0 stands for null or the empty string.
updateUserProfile_users(t, userId, bio) ==
  IF Found(t, userId) THEN [t EXCEPT ![userId].bio = bio] ELSE t

updateUserProfile(userId, bio) ==
  /\ calls < MaxCalls
  /\ users' = updateUserProfile_users(users, userId, bio)
  /\ calls' = calls + 1
  /\ UNCHANGED <<photos, comments, likes, follows, commentLikes, last, prev, procs,
                 overlap, notifications>>

\* --------------------------------------- createComment calls that overlap
\* Every await of createComment is one step.  The locals of a call in flight:
\* the photo row it selected (found, commentCount).
createComment_start(i, userId, photoId) ==
  /\ calls < MaxCallsShort
  /\ ~InFlight(i)
  /\ procs' = [procs EXCEPT ![i] = [pc |-> "insert", userId |-> userId,
                                     photoId |-> photoId, found |-> FALSE,
                                     commentCount |-> 0]]
  /\ calls' = calls + 1
  /\ UNCHANGED <<users, photos, comments, likes, follows, commentLikes, last, prev,
                 overlap, notifications>>

\* await db.insert(schema.comments).values({ userId, photoId, content })
createComment_await1(i) ==
  /\ procs[i].pc = "insert"
  /\ comments' = comments @@ (Cardinality(DOMAIN comments) + 1 :>
                   [photoId |-> procs[i].photoId, likeCount |-> 0])
  /\ procs' = [procs EXCEPT ![i].pc = "photo"]
  /\ UNCHANGED <<users, photos, likes, follows, commentLikes, last, prev, calls,
                 overlap, notifications>>

\* const [photo] = await db.select().from(schema.photos).where(id = photoId);
\* photo.commentCount of an undefined photo throws
createComment_await2(i) ==
  /\ procs[i].pc = "photo"
  /\ procs' = IF Found(photos, procs[i].photoId)
              THEN [procs EXCEPT ![i].pc = "update",
                                 ![i].found = TRUE,
                                 ![i].commentCount = photos[procs[i].photoId].commentCount]
              ELSE [procs EXCEPT ![i] = Idle]
  /\ UNCHANGED <<users, photos, comments, likes, follows, commentLikes, last, prev,
                 calls, overlap, notifications>>

\* set({ commentCount: photo.commentCount + 1 }).where(eq(photos.id, photoId))
createComment_set(t, photoId, commentCount) ==
  IF Found(t, photoId) THEN [t EXCEPT ![photoId].commentCount = commentCount + 1] ELSE t

createComment_await3(i) ==
  /\ procs[i].pc = "update"
  /\ photos' = createComment_set(photos, procs[i].photoId, procs[i].commentCount)
  /\ procs' = [procs EXCEPT ![i] = Idle]
  /\ UNCHANGED <<users, comments, likes, follows, commentLikes, last, prev, calls,
                 overlap, notifications>>

NextCommentConc ==
  \/ \E i \in Procs, u \in DOMAIN users, p \in DOMAIN photos \cup {0} :
       createComment_start(i, u, p) /\ UNCHANGED <<memVars, httpVars>>
  \/ \E i \in Procs : createComment_await1(i) /\ UNCHANGED <<memVars, httpVars>>
  \/ \E i \in Procs : createComment_await2(i) /\ UNCHANGED <<memVars, httpVars>>
  \/ \E i \in Procs : createComment_await3(i) /\ UNCHANGED <<memVars, httpVars>>

SpecCommentConc == InitPopulated /\ [][NextCommentConc]_vars

\* ------------------------------------------- what a toggle leaves alone
\* likePhoto, likeComment, followUser and unfollowUser on a store that holds
\* its users, photos and comments; a target may be an id of no row.
NextFrame ==
  \/ \E u \in DOMAIN users, p \in DOMAIN photos \cup {0} :
       /\ calls < MaxCallsShort
       /\ likePhoto(u, p) /\ UNCHANGED <<memVars, httpVars>>
  \/ \E u \in DOMAIN users, c \in DOMAIN comments \cup {0} :
       /\ calls < MaxCallsShort
       /\ likeComment(u, c) /\ UNCHANGED <<memVars, httpVars>>
  \/ \E f \in DOMAIN users, g \in DOMAIN users \cup {0} :
       /\ calls < MaxCallsShort
       /\ followUser(f, g) /\ UNCHANGED <<memVars, httpVars>>
  \/ \E f \in DOMAIN users, g \in DOMAIN users \cup {0} :
       /\ calls < MaxCallsShort
       /\ unfollowUser(f, g) /\ UNCHANGED <<memVars, httpVars>>

SpecFrame == InitPopulated /\ [][NextFrame]_vars

\* ============================================================ MemStorage
\* The in-memory backend keeps each entity in a Map keyed by a numeric id
\* taken from a counter that starts at 1.  Users, photos and comments are
\* never removed, so their counters equal the map size plus one; Follow
\* entries are removed by unfollowUser and keep a counter of their own.
currentId == Cardinality(DOMAIN memUsers) + 1
currentPhotoId == Cardinality(DOMAIN memPhotos) + 1
currentCommentId == Cardinality(DOMAIN memComments) + 1

MemCall(op, t, pre, err) == [op |-> op, target |-> t, pre |-> pre, err |-> err]

\* the issuing of one more call, and the frames of the two backends
Tick == calls < MaxCalls /\ calls' = calls + 1

relVars == <<users, photos, comments, likes, follows, commentLikes, last, prev,
             procs, overlap, notifications>>

Mem_createUser ==
  /\ currentId <= MaxUsers
  /\ memUsers' = memUsers @@ (currentId :> [followerCount |-> 0, password |-> "hash", bio |-> 0])
  /\ UNCHANGED <<memPhotos, memComments, memFollows, currentFollowId, memLast>>
  /\ UNCHANGED memNotifications

Mem_createPhoto(userId) ==
  /\ currentPhotoId <= MaxPhotos
  /\ memPhotos' = memPhotos @@ (currentPhotoId :>
                    [userId |-> userId, likeCount |-> 0, commentCount |-> 0])
  /\ UNCHANGED <<memUsers, memComments, memFollows, currentFollowId, memLast>>
  /\ UNCHANGED memNotifications

\* if (photo) { photo.commentCount = (photo.commentCount || 0) + 1 }
Mem_createComment_photos(t, photoId) ==
  IF Found(t, photoId) THEN [t EXCEPT ![photoId].commentCount = @ + 1] ELSE t

Mem_createComment(userId, photoId) ==
  /\ currentCommentId <= MaxComments
  /\ memComments' = memComments @@ (currentCommentId :>
                      [photoId |-> photoId, likeCount |-> 0])
  /\ memPhotos' = Mem_createComment_photos(memPhotos, photoId)
  /\ UNCHANGED <<memUsers, memFollows, currentFollowId, memLast>>
  /\ UNCHANGED memNotifications

\* if (photo) { photo.likeCount = (photo.likeCount || 0) + 1 }; no Like entry
\* is read or written, the caller's id is not used
Mem_likePhoto_photos(t, photoId) ==
  IF Found(t, photoId) THEN [t EXCEPT ![photoId].likeCount = @ + 1] ELSE t

Mem_likePhoto(userId, photoId) ==
  /\ memPhotos' = Mem_likePhoto_photos(memPhotos, photoId)
  /\ memLast' = MemCall("likePhoto", photoId,
                        IF Found(memPhotos, photoId) THEN memPhotos[photoId].likeCount ELSE 0,
                        "none")
  /\ UNCHANGED <<memUsers, memComments, memFollows, currentFollowId>>
  /\ UNCHANGED memNotifications

\* the decrement without its guard (photo.likeCount > 0)
Mem_unlikePhoto_photos_noClamp(t, photoId) ==
  IF Found(t, photoId) THEN [t EXCEPT ![photoId].likeCount = @ - 1] ELSE t

\* if (photo && photo.likeCount && photo.likeCount > 0) { photo.likeCount-- }
Mem_unlikePhoto_photos(t, photoId) ==
  IF Found(t, photoId) /\ t[photoId].likeCount > 0
  THEN [t EXCEPT ![photoId].likeCount = @ - 1]
  ELSE t

Mem_unlikePhoto(userId, photoId) ==
  /\ memPhotos' = Mem_unlikePhoto_photos(memPhotos, photoId)
  /\ memLast' = MemCall("unlikePhoto", photoId,
                        IF Found(memPhotos, photoId) THEN memPhotos[photoId].likeCount ELSE 0,
                        "none")
  /\ UNCHANGED <<memUsers, memComments, memFollows, currentFollowId>>
  /\ UNCHANGED memNotifications

\* Array.from(this.follows.values()).some(f => f.followerId === followerId &&
\*                                             f.followingId === followingId)
Mem_isFollowing(t, followerId, followingId) ==
  \E id \in DOMAIN t : t[id].followerId = followerId /\ t[id].followingId = followingId

\* if (user) { user.followerCount = (user.followerCount || 0) + 1 }
Mem_followUser_users(t, followingId) ==
  IF Found(t, followingId) THEN [t EXCEPT ![followingId].followerCount = @ + 1] ELSE t

\* if (await this.isFollowing(...)) return; the entry is set before the
\* followed user is looked up
Mem_followUser(followerId, followingId) ==
  /\ IF Mem_isFollowing(memFollows, followerId, followingId)
     THEN UNCHANGED <<memFollows, currentFollowId, memUsers>>
     ELSE /\ memFollows' = memFollows @@ (currentFollowId :>
                             [followerId |-> followerId, followingId |-> followingId])
          /\ currentFollowId' = currentFollowId + 1
          /\ memUsers' = Mem_followUser_users(memUsers, followingId)
  /\ memLast' = MemCall("followUser", followingId,
                        IF Found(memUsers, followingId)
                        THEN memUsers[followingId].followerCount ELSE 0,
                        "none")
  /\ UNCHANGED <<memPhotos, memComments>>
  /\ UNCHANGED memNotifications

\* Array.from(this.follows.values()).find(...): the first matching entry in
\* insertion order, which is the order of the ids
Mem_unfollowUser_follow(t, followerId, followingId) ==
  LET hit == {id \in DOMAIN t : t[id].followerId = followerId
                                /\ t[id].followingId = followingId}
  IN  IF hit = {} THEN 0 ELSE CHOOSE id \in hit : \A o \in hit : id <= o

\* if (user && user.followerCount && user.followerCount > 0) { user.followerCount-- }
Mem_unfollowUser_users(t, followingId) ==
  IF Found(t, followingId) /\ t[followingId].followerCount > 0
  THEN [t EXCEPT ![followingId].followerCount = @ - 1]
  ELSE t

Mem_unfollowUser(followerId, followingId) ==
  /\ LET follow == Mem_unfollowUser_follow(memFollows, followerId, followingId)
     IN  IF follow = 0
         THEN UNCHANGED <<memFollows, memUsers>>
         ELSE /\ memFollows' = [id \in DOMAIN memFollows \ {follow} |-> memFollows[id]]
              /\ memUsers' = Mem_unfollowUser_users(memUsers, followingId)
  /\ memLast' = MemCall("unfollowUser", followingId,
                        IF Found(memUsers, followingId)
                        THEN memUsers[followingId].followerCount ELSE 0,
                        "none")
  /\ UNCHANGED <<memPhotos, memComments, currentFollowId>>
  /\ UNCHANGED memNotifications

\* followedUserIds: follows.filter(follow => follow.followerId === userId)
\* photos.filter(photo => followedUserIds.includes(photo.userId) ||
\*                        photo.userId === userId)
Mem_getFeedPhotos(followsT, photosT, userId) ==
  LET followedUserIds == {followsT[id].followingId :
                            id \in {x \in DOMAIN followsT :
                                      followsT[x].followerId = userId}}
  IN  {p \in DOMAIN photosT :
         photosT[p].userId \in followedUserIds \/ photosT[p].userId = userId}

\* if (comment) { comment.likeCount = (comment.likeCount || 0) + 1 }
Mem_likeComment_comments(t, commentId) ==
  IF Found(t, commentId) THEN [t EXCEPT ![commentId].likeCount = @ + 1] ELSE t

Mem_likeComment(userId, commentId) ==
  /\ memComments' = Mem_likeComment_comments(memComments, commentId)
  /\ memLast' = MemCall("likeComment", commentId,
                        IF Found(memComments, commentId)
                        THEN memComments[commentId].likeCount ELSE 0,
                        "none")
  /\ UNCHANGED <<memUsers, memPhotos, memFollows, currentFollowId>>
  /\ UNCHANGED memNotifications

\* if (comment && comment.likeCount && comment.likeCount > 0) { comment.likeCount-- }
Mem_unlikeComment_comments(t, commentId) ==
  IF Found(t, commentId) /\ t[commentId].likeCount > 0
  THEN [t EXCEPT ![commentId].likeCount = @ - 1]
  ELSE t

Mem_unlikeComment(userId, commentId) ==
  /\ memComments' = Mem_unlikeComment_comments(memComments, commentId)
  /\ memLast' = MemCall("unlikeComment", commentId,
                        IF Found(memComments, commentId)
                        THEN memComments[commentId].likeCount ELSE 0,
                        "none")
  /\ UNCHANGED <<memUsers, memPhotos, memFollows, currentFollowId>>
  /\ UNCHANGED memNotifications

\* const id = this.currentNotificationId++; notifications are never removed
currentNotificationId == Cardinality(DOMAIN memNotifications) + 1

Mem_createNotification(userId, actorId) ==
  /\ currentNotificationId <= MaxNotifications
  /\ memNotifications' = memNotifications @@ (currentNotificationId :>
                           [userId |-> userId, read |-> FALSE])
  /\ memLast' = MemCall("createNotification", userId, 0, "none")
  /\ UNCHANGED <<memUsers, memPhotos, memComments, memFollows, currentFollowId>>

\* if (notification) { notification.read = true }
Mem_markNotificationAsRead_notifications(t, notificationId) ==
  IF Found(t, notificationId) THEN [t EXCEPT ![notificationId].read = TRUE] ELSE t

Mem_markNotificationAsRead(notificationId) ==
  /\ memNotifications' =
       Mem_markNotificationAsRead_notifications(memNotifications, notificationId)
  /\ memLast' = MemCall("markNotificationAsRead", notificationId, 0, "none")
  /\ UNCHANGED <<memUsers, memPhotos, memComments, memFollows, currentFollowId>>

\* for (const [id, notification] of this.notifications.entries())
\*   if (notification.userId === userId) { notification.read = true }
Mem_markAllNotificationsAsRead_notifications(t, userId) ==
  [n \in DOMAIN t |-> IF t[n].userId = userId THEN [t[n] EXCEPT !.read = TRUE] ELSE t[n]]

Mem_markAllNotificationsAsRead(userId) ==
  /\ memNotifications' =
       Mem_markAllNotificationsAsRead_notifications(memNotifications, userId)
  /\ memLast' = MemCall("markAllNotificationsAsRead", userId, 0, "none")
  /\ UNCHANGED <<memUsers, memPhotos, memComments, memFollows, currentFollowId>>

\* calls on the in-memory backend alone.  Ids are numbers a caller can guess:
\* a call may name the id the next createUser or createPhoto will hand out.
NextMem ==
  \/ Mem_createUser /\ UNCHANGED <<relVars, calls, httpVars>>
  \/ \E u \in DOMAIN memUsers : Mem_createPhoto(u) /\ UNCHANGED <<relVars, calls, httpVars>>
  \/ \E u \in DOMAIN memUsers, p \in 0..MaxPhotos :
       Mem_createComment(u, p) /\ UNCHANGED <<relVars, calls, httpVars>>
  \/ \E u \in DOMAIN memUsers, p \in DOMAIN memPhotos \cup {0} :
       Mem_likePhoto(u, p) /\ Tick /\ UNCHANGED <<relVars, httpVars>>
  \/ \E u \in DOMAIN memUsers, p \in DOMAIN memPhotos \cup {0} :
       Mem_unlikePhoto(u, p) /\ Tick /\ UNCHANGED <<relVars, httpVars>>
  \/ \E f \in DOMAIN memUsers, g \in 0..MaxUsers :
       Mem_followUser(f, g) /\ Tick /\ UNCHANGED <<relVars, httpVars>>
  \/ \E f \in DOMAIN memUsers, g \in 0..MaxUsers :
       Mem_unfollowUser(f, g) /\ Tick /\ UNCHANGED <<relVars, httpVars>>
  \/ \E u \in DOMAIN memUsers, c \in DOMAIN memComments \cup {0} :
       Mem_likeComment(u, c) /\ Tick /\ UNCHANGED <<relVars, httpVars>>
  \/ \E u \in DOMAIN memUsers, c \in DOMAIN memComments \cup {0} :
       Mem_unlikeComment(u, c) /\ Tick /\ UNCHANGED <<relVars, httpVars>>

SpecMem == Init /\ [][NextMem]_vars

\* follows alone on the in-memory backend
NextMemFollow ==
  \/ Mem_createUser /\ UNCHANGED <<relVars, calls, httpVars>>
  \/ \E f \in DOMAIN memUsers, g \in 0..MaxUsers :
       Mem_followUser(f, g) /\ Tick /\ UNCHANGED <<relVars, httpVars>>
  \/ \E f \in DOMAIN memUsers, g \in 0..MaxUsers :
       Mem_unfollowUser(f, g) /\ Tick /\ UNCHANGED <<relVars, httpVars>>

SpecMemFollow == Init /\ [][NextMemFollow]_vars

\* the in-memory backend once MaxUsers createUser and MaxPhotos createPhoto
\* calls have returned; comments are still to be written
MemPopulated ==
  /\ memUsers = [u \in UserIds |-> [followerCount |-> 0, password |-> "hash", bio |-> 0]]
  /\ memPhotos = [p \in PhotoIds |->
                    [userId |-> ((p - 1) % MaxUsers) + 1, likeCount |-> 0,
                     commentCount |-> 0]]
  /\ memComments = <<>>
  /\ memFollows = <<>>
  /\ currentFollowId = 1
  /\ memLast = MemNone
  /\ memNotifications = <<>>

InitMemPopulated == RelInit /\ MemPopulated /\ HttpInit

\* a store that starts populated grows faster with each call than an empty
\* one and has a shorter call budget
MemTick == calls < MaxCallsShort /\ calls' = calls + 1

NextMemPopulated ==
  \/ \E u \in DOMAIN memUsers, p \in DOMAIN memPhotos :
       Mem_createComment(u, p) /\ UNCHANGED <<relVars, calls, httpVars>>
  \/ \E u \in DOMAIN memUsers, p \in DOMAIN memPhotos :
       Mem_likePhoto(u, p) /\ MemTick /\ UNCHANGED <<relVars, httpVars>>
  \/ \E u \in DOMAIN memUsers, p \in DOMAIN memPhotos :
       Mem_unlikePhoto(u, p) /\ MemTick /\ UNCHANGED <<relVars, httpVars>>
  \/ \E f \in DOMAIN memUsers, g \in DOMAIN memUsers :
       Mem_followUser(f, g) /\ MemTick /\ UNCHANGED <<relVars, httpVars>>
  \/ \E f \in DOMAIN memUsers, g \in DOMAIN memUsers :
       Mem_unfollowUser(f, g) /\ MemTick /\ UNCHANGED <<relVars, httpVars>>
  \/ \E u \in DOMAIN memUsers, c \in DOMAIN memComments :
       Mem_likeComment(u, c) /\ MemTick /\ UNCHANGED <<relVars, httpVars>>
  \/ \E u \in DOMAIN memUsers, c \in DOMAIN memComments :
       Mem_unlikeComment(u, c) /\ MemTick /\ UNCHANGED <<relVars, httpVars>>

SpecMemPopulated == InitMemPopulated /\ [][NextMemPopulated]_vars

\* ------------------------------------------- the two backends side by side
\* One call sequence applied to both backends, each from its empty state.
NextFollowBoth ==
  \/ createUser /\ Mem_createUser /\ UNCHANGED httpVars
  \/ \E f \in DOMAIN users, g \in DOMAIN users \cup {0} :
       followUser(f, g) /\ Mem_followUser(f, g) /\ UNCHANGED httpVars
  \/ \E f \in DOMAIN users, g \in DOMAIN users \cup {0} :
       unfollowUser(f, g) /\ Mem_unfollowUser(f, g) /\ UNCHANGED httpVars

SpecFollowBoth == Init /\ [][NextFollowBoth]_vars

\* every operation the two backends share, on targets that exist
NextBoth ==
  \/ createUser /\ Mem_createUser /\ UNCHANGED httpVars
  \/ \E u \in DOMAIN users : createPhoto(u) /\ Mem_createPhoto(u) /\ UNCHANGED httpVars
  \/ \E u \in DOMAIN users, p \in DOMAIN photos :
       createComment(u, p) /\ Mem_createComment(u, p) /\ UNCHANGED httpVars
  \/ \E u \in DOMAIN users, p \in DOMAIN photos :
       likePhoto(u, p) /\ Mem_likePhoto(u, p) /\ UNCHANGED httpVars
  \/ \E f \in DOMAIN users, g \in DOMAIN users :
       followUser(f, g) /\ Mem_followUser(f, g) /\ UNCHANGED httpVars
  \/ \E f \in DOMAIN users, g \in DOMAIN users :
       unfollowUser(f, g) /\ Mem_unfollowUser(f, g) /\ UNCHANGED httpVars
  \/ \E u \in DOMAIN users, c \in DOMAIN comments :
       likeComment(u, c) /\ Mem_likeComment(u, c) /\ UNCHANGED httpVars
  \/ \E u \in DOMAIN users, c \in DOMAIN comments :
       unlikeComment(u, c) /\ Mem_unlikeComment(u, c) /\ UNCHANGED httpVars

SpecBoth == Init /\ [][NextBoth]_vars

\* follows in both backends once MaxUsers createUser and MaxPhotos createPhoto
\* calls have returned in each
InitFeed ==
  /\ MemPopulated
  /\ HttpInit
  /\ users = [u \in UserIds |-> [followerCount |-> 0, password |-> "hash", bio |-> 0]]
  /\ photos = [p \in PhotoIds |->
                 [userId |-> ((p - 1) % MaxUsers) + 1, likeCount |-> 0,
                  commentCount |-> 0, isDeleted |-> FALSE]]
  /\ comments = <<>>
  /\ likes = EmptyBag
  /\ follows = EmptyBag
  /\ commentLikes = EmptyBag
  /\ last = None
  /\ prev = None
  /\ calls = 0
  /\ procs = [i \in Procs |-> Idle]
  /\ overlap = FALSE
  /\ notifications = <<>>

NextFeed ==
  \/ \E f \in DOMAIN users, g \in DOMAIN users \cup {0} :
       calls < MaxCallsShort /\ followUser(f, g) /\ Mem_followUser(f, g) /\ UNCHANGED httpVars
  \/ \E f \in DOMAIN users, g \in DOMAIN users \cup {0} :
       calls < MaxCallsShort /\ unfollowUser(f, g) /\ Mem_unfollowUser(f, g) /\ UNCHANGED httpVars

SpecFeed == InitFeed /\ [][NextFeed]_vars

\* ------------------------------------------- the feed query over any table
\* getFeedPhotos is a query: its result is a function of the rows it reads.
\* schema.photos carries an isDeleted column that getPhotos, getUserPhotos and
\* getFeedPhotos filter on; no method of the storage classes writes it, so a
\* flagged photo row is one written to the database by other means.  Here the
\* photos table starts with any owners and any flags.
InitFeedQuery ==
  /\ MemInit
  /\ HttpInit
  /\ users = [u \in UserIds |-> [followerCount |-> 0, password |-> "hash", bio |-> 0]]
  /\ photos \in [PhotoIds -> [userId : UserIds, likeCount : {0}, commentCount : {0},
                               isDeleted : BOOLEAN]]
  /\ comments = <<>>
  /\ likes = EmptyBag
  /\ follows = EmptyBag
  /\ commentLikes = EmptyBag
  /\ last = None
  /\ prev = None
  /\ calls = 0
  /\ procs = [i \in Procs |-> Idle]
  /\ overlap = FALSE
  /\ notifications = <<>>

NextFeedQuery ==
  \/ \E f \in DOMAIN users, g \in DOMAIN users :
       calls < MaxCallsShort /\ followUser(f, g) /\ UNCHANGED <<memVars, httpVars>>
  \/ \E f \in DOMAIN users, g \in DOMAIN users :
       calls < MaxCallsShort /\ unfollowUser(f, g) /\ UNCHANGED <<memVars, httpVars>>

SpecFeedQuery == InitFeedQuery /\ [][NextFeedQuery]_vars

\* =========================================================== registerRoutes
\* A handler first tests req.isAuthenticated() (auth), then awaits one storage
\* call and sends 200.  A storage call that throws rejects the promise of the
\* async handler, which no handler catches: depending on the Express major
\* version no response is sent (0) or the default error handler sends 500.
Answer(ok) == IF ok THEN {200} ELSE {0, 500}

POST_api_photos(auth, userId) ==
  /\ IF auth
     THEN createPhoto(userId) /\ res' = 200
     ELSE res' = 401 /\ UNCHANGED <<relVars, calls>>
  /\ UNCHANGED uploads

POST_api_photos_like(auth, userId, photoId) ==
  /\ IF auth
     THEN likePhoto(userId, photoId) /\ res' \in Answer(last'.err = "none")
     ELSE res' = 401 /\ UNCHANGED <<relVars, calls>>
  /\ UNCHANGED uploads

POST_api_users_follow(auth, userId, followingId) ==
  /\ IF auth
     THEN followUser(userId, followingId) /\ res' \in Answer(last'.err = "none")
     ELSE res' = 401 /\ UNCHANGED <<relVars, calls>>
  /\ UNCHANGED uploads

POST_api_users_unfollow(auth, userId, followingId) ==
  /\ IF auth
     THEN unfollowUser(userId, followingId) /\ res' \in Answer(last'.err = "none")
     ELSE res' = 401 /\ UNCHANGED <<relVars, calls>>
  /\ UNCHANGED uploads

POST_api_photos_comments(auth, userId, photoId) ==
  /\ IF auth
     THEN createComment(userId, photoId) /\ res' \in Answer(Found(photos, photoId))
     ELSE res' = 401 /\ UNCHANGED <<relVars, calls>>
  /\ UNCHANGED uploads

POST_api_comments_like(auth, userId, commentId) ==
  /\ IF auth
     THEN likeComment(userId, commentId) /\ res' \in Answer(last'.err = "none")
     ELSE res' = 401 /\ UNCHANGED <<relVars, calls>>
  /\ UNCHANGED uploads

POST_api_comments_unlike(auth, userId, commentId) ==
  /\ IF auth
     THEN unlikeComment(userId, commentId) /\ res' \in Answer(last'.err = "none")
     ELSE res' = 401 /\ UNCHANGED <<relVars, calls>>
  /\ UNCHANGED uploads

\* try { user = await storage.updateUserProfile(...); res.json(...) }
\* catch (error) { res.status(400) }: destructuring an undefined user throws
PATCH_api_user_profile(auth, userId, bio) ==
  /\ IF auth
     THEN updateUserProfile(userId, bio)
          /\ res' = IF Found(users, userId) THEN 200 ELSE 400
     ELSE res' = 401 /\ UNCHANGED <<relVars, calls>>
  /\ UNCHANGED uploads

POST_api_notifications_read(auth, id) ==
  /\ IF auth
     THEN markNotificationAsRead(id) /\ res' = 200
     ELSE res' = 401 /\ UNCHANGED <<relVars, calls>>
  /\ UNCHANGED uploads

POST_api_notifications_read_all(auth, userId) ==
  /\ IF auth
     THEN markAllNotificationsAsRead(userId) /\ res' = 200
     ELSE res' = 401 /\ UNCHANGED <<relVars, calls>>
  /\ UNCHANGED uploads

\* ----------------------------------------------------- user responses
\* const { password, ...userWithoutPassword } = user
userWithoutPassword(user) == [f \in DOMAIN user \ {"password"} |-> user[f]]

\* the user objects in the body of GET /api/users/:userId (404 carries none)
GET_api_users(usersT, userId) ==
  IF Found(usersT, userId) THEN {userWithoutPassword(usersT[userId])} ELSE {}

\* the user objects in the body of PATCH /api/user/profile: the row returned
\* by the update, less its password (400 carries none)
PATCH_api_user_profile_body(usersT, userId, bio) ==
  IF Found(usersT, userId)
  THEN {userWithoutPassword(updateUserProfile_users(usersT, userId, bio)[userId])}
  ELSE {}

\* res.json(users): the rows of users as getLikedUsers returned them
GET_api_photos_likes(likesT, usersT, photoId) ==
  {usersT[u] : u \in BagToSet(getLikedUsers(likesT, usersT, photoId))}

\* res.json(followers): the rows of users as getFollowers returned them
GET_api_users_followers(followsT, usersT, userId) ==
  {usersT[f] : f \in BagToSet(getFollowers(followsT, usersT, userId))}

\* ------------------------------------------------------------ /api/upload
\* app.post('/api/upload', upload.single('file'), handler): multer runs before
\* the handler.  An image part is written to the uploads directory by
\* diskStorage; fileFilter rejects any other part with an Error, which
\* Express answers with 500; a request without a file part stores nothing.
\* Only then does the handler test req.isAuthenticated() and req.file.
Files == {"none", "image", "other"}

POST_api_upload(auth, file) ==
  /\ uploads' = IF file = "image" THEN uploads + 1 ELSE uploads
  /\ uploads' <= MaxUploads
  /\ res' = IF file = "other" THEN 500
            ELSE IF ~auth THEN 401
            ELSE IF file = "none" THEN 400
            ELSE 200
  /\ UNCHANGED <<relVars, calls>>

\* ---------------------------------------------- state-changing routes
\* MaxUsers registered users; every state-changing route is requested with
\* and without a session.
InitRoutes ==
  /\ MemInit
  /\ HttpInit
  /\ users = [u \in UserIds |-> [followerCount |-> 0, password |-> "hash", bio |-> 0]]
  /\ photos = <<>>
  /\ comments = <<>>
  /\ likes = EmptyBag
  /\ follows = EmptyBag
  /\ commentLikes = EmptyBag
  /\ last = None
  /\ prev = None
  /\ calls = 0
  /\ procs = [i \in Procs |-> Idle]
  /\ overlap = FALSE
  /\ notifications = <<>>

NextRoutes ==
  \/ \E auth \in BOOLEAN, file \in Files :
       POST_api_upload(auth, file) /\ UNCHANGED memVars
  \/ \E auth \in BOOLEAN, u \in DOMAIN users :
       POST_api_photos(auth, u) /\ UNCHANGED memVars
  \/ \E auth \in BOOLEAN, u \in DOMAIN users, p \in DOMAIN photos :
       /\ calls < MaxCallsShort
       /\ POST_api_photos_like(auth, u, p) /\ UNCHANGED memVars
  \/ \E auth \in BOOLEAN, f \in DOMAIN users, g \in DOMAIN users :
       /\ calls < MaxCallsShort
       /\ POST_api_users_follow(auth, f, g) /\ UNCHANGED memVars
  \/ \E auth \in BOOLEAN, f \in DOMAIN users, g \in DOMAIN users :
       /\ calls < MaxCallsShort
       /\ POST_api_users_unfollow(auth, f, g) /\ UNCHANGED memVars
  \/ \E auth \in BOOLEAN, u \in DOMAIN users, p \in DOMAIN photos :
       POST_api_photos_comments(auth, u, p) /\ UNCHANGED memVars
  \/ \E auth \in BOOLEAN, u \in DOMAIN users, c \in DOMAIN comments :
       /\ calls < MaxCallsShort
       /\ POST_api_comments_like(auth, u, c) /\ UNCHANGED memVars
  \/ \E auth \in BOOLEAN, u \in DOMAIN users, c \in DOMAIN comments :
       /\ calls < MaxCallsShort
       /\ POST_api_comments_unlike(auth, u, c) /\ UNCHANGED memVars
  \/ \E auth \in BOOLEAN, u \in DOMAIN users, bio \in {0, 1} :
       /\ calls < MaxCallsShort
       /\ PATCH_api_user_profile(auth, u, bio) /\ UNCHANGED memVars
  \/ \E u \in DOMAIN users, a \in DOMAIN users :
       /\ calls < MaxCallsShort
       /\ createNotification(u, a) /\ UNCHANGED <<memVars, httpVars>>
  \/ \E auth \in BOOLEAN, n \in DOMAIN notifications \cup {0} :
       /\ calls < MaxCallsShort
       /\ POST_api_notifications_read(auth, n) /\ UNCHANGED memVars
  \/ \E auth \in BOOLEAN, u \in DOMAIN users :
       /\ calls < MaxCallsShort
       /\ POST_api_notifications_read_all(auth, u) /\ UNCHANGED memVars

SpecRoutes == InitRoutes /\ [][NextRoutes]_vars

\* ------------------------------------------- toggles and notifications
\* Both backends hold MaxUsers users, MaxPhotos photos and MaxComments
\* comments; each request is served by either backend.
InitNotify ==
  /\ HttpInit
  /\ users = [u \in UserIds |-> [followerCount |-> 0, password |-> "hash", bio |-> 0]]
  /\ photos = [p \in PhotoIds |->
                 [userId |-> ((p - 1) % MaxUsers) + 1, likeCount |-> 0,
                  commentCount |-> Cardinality({c \in CommentIds :
                                                  ((c - 1) % MaxPhotos) + 1 = p}),
                  isDeleted |-> FALSE]]
  /\ comments = [c \in CommentIds |->
                   [photoId |-> ((c - 1) % MaxPhotos) + 1, likeCount |-> 0]]
  /\ likes = EmptyBag
  /\ follows = EmptyBag
  /\ commentLikes = EmptyBag
  /\ last = None
  /\ prev = None
  /\ calls = 0
  /\ procs = [i \in Procs |-> Idle]
  /\ overlap = FALSE
  /\ notifications = <<>>
  /\ memUsers = [u \in UserIds |-> [followerCount |-> 0, password |-> "hash", bio |-> 0]]
  /\ memPhotos = [p \in PhotoIds |->
                    [userId |-> ((p - 1) % MaxUsers) + 1, likeCount |-> 0,
                     commentCount |-> Cardinality({c \in CommentIds :
                                                     ((c - 1) % MaxPhotos) + 1 = p})]]
  /\ memComments = [c \in CommentIds |->
                      [photoId |-> ((c - 1) % MaxPhotos) + 1, likeCount |-> 0]]
  /\ memFollows = <<>>
  /\ currentFollowId = 1
  /\ memLast = MemNone
  /\ memNotifications = <<>>

NextNotify ==
  \/ \E u \in DOMAIN users, p \in DOMAIN photos :
       /\ calls < MaxCallsShort
       /\ POST_api_photos_like(TRUE, u, p) /\ Mem_likePhoto(u, p)
  \/ \E u \in DOMAIN users, p \in DOMAIN photos :
       Mem_unlikePhoto(u, p) /\ MemTick /\ UNCHANGED <<relVars, httpVars>>
  \/ \E f \in DOMAIN users, g \in DOMAIN users :
       /\ calls < MaxCallsShort
       /\ POST_api_users_follow(TRUE, f, g) /\ Mem_followUser(f, g)
  \/ \E f \in DOMAIN users, g \in DOMAIN users :
       /\ calls < MaxCallsShort
       /\ POST_api_users_unfollow(TRUE, f, g) /\ Mem_unfollowUser(f, g)
  \/ \E u \in DOMAIN users, c \in DOMAIN comments :
       /\ calls < MaxCallsShort
       /\ POST_api_comments_like(TRUE, u, c) /\ Mem_likeComment(u, c)
  \/ \E u \in DOMAIN users, c \in DOMAIN comments :
       /\ calls < MaxCallsShort
       /\ POST_api_comments_unlike(TRUE, u, c) /\ Mem_unlikeComment(u, c)
  \/ \E u \in DOMAIN users, a \in DOMAIN users :
       /\ calls < MaxCallsShort
       /\ createNotification(u, a) /\ Mem_createNotification(u, a)
       /\ UNCHANGED httpVars
  \/ \E n \in DOMAIN notifications \cup {0} :
       /\ calls < MaxCallsShort
       /\ markNotificationAsRead(n) /\ Mem_markNotificationAsRead(n)
       /\ UNCHANGED httpVars
  \/ \E u \in DOMAIN users :
       /\ calls < MaxCallsShort
       /\ markAllNotificationsAsRead(u) /\ Mem_markAllNotificationsAsRead(u)
       /\ UNCHANGED httpVars

SpecNotify == InitNotify /\ [][NextNotify]_vars

\* ------------------------------------------------------------- getPhotos
\* createdAt is set when the row or entry is created (defaultNow(), new
\* Date()); ids are handed out in creation order, so the id stands for it.
createdAt(photoId) == photoId

\* orderBy(desc(users.followerCount), desc(photos.likeCount),
\*         desc(photos.commentCount), desc(photos.createdAt)): p sorts before q
getPhotos_orderBy(photosT, usersT, p, q) ==
  LET fp == usersT[photosT[p].userId].followerCount
      fq == usersT[photosT[q].userId].followerCount
      lp == photosT[p].likeCount
      lq == photosT[q].likeCount
      cp == photosT[p].commentCount
      cq == photosT[q].commentCount
  IN  \/ fp > fq
      \/ fp = fq /\ lp > lq
      \/ fp = fq /\ lp = lq /\ cp > cq
      \/ fp = fq /\ lp = lq /\ cp = cq /\ createdAt(p) > createdAt(q)

\* from(photos).innerJoin(users, users.id = photos.userId)
\*   .where(photos.isDeleted = false).orderBy(...): the photo ids in result order
getPhotos(photosT, usersT) ==
  LET rows == {p \in DOMAIN photosT : Found(usersT, photosT[p].userId)
                                       /\ ~photosT[p].isDeleted}
      n == Cardinality(rows)
  IN  CHOOSE s \in [1..n -> rows] :
        \A i \in 1..n, j \in 1..n :
          i < j => getPhotos_orderBy(photosT, usersT, s[i], s[j])

\* Array.from(this.photos.values()).sort((a, b) => b.createdAt - a.createdAt)
Mem_getPhotos(photosT) ==
  LET rows == DOMAIN photosT
      n == Cardinality(rows)
  IN  CHOOSE s \in [1..n -> rows] :
        \A i \in 1..n, j \in 1..n : i < j => createdAt(s[i]) > createdAt(s[j])

\* Both backends hold MaxUsers users and MaxRanked photos, photo p owned by
\* user ((p - 1) % MaxUsers) + 1; likes, follows and comments then move the
\* counters the ranking reads.
RankedIds == 1..MaxRanked

InitRanked ==
  /\ HttpInit
  /\ users = [u \in UserIds |-> [followerCount |-> 0, password |-> "hash", bio |-> 0]]
  /\ photos = [p \in RankedIds |->
                 [userId |-> ((p - 1) % MaxUsers) + 1, likeCount |-> 0,
                  commentCount |-> 0, isDeleted |-> FALSE]]
  /\ comments = <<>>
  /\ likes = EmptyBag
  /\ follows = EmptyBag
  /\ commentLikes = EmptyBag
  /\ last = None
  /\ prev = None
  /\ calls = 0
  /\ procs = [i \in Procs |-> Idle]
  /\ overlap = FALSE
  /\ notifications = <<>>
  /\ memUsers = [u \in UserIds |-> [followerCount |-> 0, password |-> "hash", bio |-> 0]]
  /\ memPhotos = [p \in RankedIds |->
                    [userId |-> ((p - 1) % MaxUsers) + 1, likeCount |-> 0,
                     commentCount |-> 0]]
  /\ memComments = <<>>
  /\ memFollows = <<>>
  /\ currentFollowId = 1
  /\ memLast = MemNone
  /\ memNotifications = <<>>

NextRanked ==
  \/ \E u \in DOMAIN users, p \in DOMAIN photos :
       /\ calls < MaxCallsShort
       /\ likePhoto(u, p) /\ Mem_likePhoto(u, p) /\ UNCHANGED httpVars
  \/ \E f \in DOMAIN users, g \in DOMAIN users :
       /\ calls < MaxCallsShort
       /\ followUser(f, g) /\ Mem_followUser(f, g) /\ UNCHANGED httpVars
  \/ \E u \in DOMAIN users, p \in DOMAIN photos :
       createComment(u, p) /\ Mem_createComment(u, p) /\ UNCHANGED httpVars

SpecRanked == InitRanked /\ [][NextRanked]_vars

\* ================================================================ claims
ActiveLikes(photoId) ==
  SelectCount(likes, {r \in BagToSet(likes) : r.photoId = photoId /\ ~r.isDeleted})

ActiveFollows(userId) ==
  SelectCount(follows, {r \in BagToSet(follows) : r.followingId = userId /\ ~r.isDeleted})

ActiveCommentLikes(commentId) ==
  SelectCount(commentLikes, {r \in BagToSet(commentLikes) :
                               r.commentId = commentId /\ ~r.isDeleted})

\* C1: after any sequence of likePhoto calls made one after the other, every
\* photo's likeCount equals the number of its Like rows with isDeleted = false.
C1_LikeCountIsActiveLikes ==
  \A p \in DOMAIN photos : photos[p].likeCount = ActiveLikes(p)

\* the scenario's end: a second actor has liked, the first re-liked a
\* soft-deleted row, two active rows and likeCount 2
C1_Witness ==
  /\ last.op = "likePhoto" /\ last.err = "none"
  /\ last.preDeleted = 1 /\ last.pre = 1
  /\ photos[last.target].likeCount = 2
  /\ ActiveLikes(last.target) = 2

\* C2: when overlapping likePhoto calls of distinct actors have all completed,
\* every photo's likeCount equals the number of its active Like rows.
C2_ConcurrentLikesKeepCount ==
  (Quiescent /\ ~overlap) =>
    \A p \in DOMAIN photos : photos[p].likeCount = ActiveLikes(p)

\* C3: after any sequence of followUser and unfollowUser calls, every user's
\* followerCount equals the number of active Follow rows pointing at the user.
C3_FollowerCountIsActiveFollows ==
  \A u \in DOMAIN users : users[u].followerCount = ActiveFollows(u)

\* C4: after any sequence of likeComment and unlikeComment calls, every
\* comment's likeCount equals the number of its active CommentLike rows.
C4_CommentLikeCountIsActiveLikes ==
  \A c \in DOMAIN comments : comments[c].likeCount = ActiveCommentLikes(c)

\* C5: no likeCount and no followerCount is ever below 0.
C5_NoNegativeCounter ==
  /\ \A p \in DOMAIN photos : photos[p].likeCount >= 0
  /\ \A u \in DOMAIN users : users[u].followerCount >= 0
  /\ \A c \in DOMAIN comments : comments[c].likeCount >= 0

\* C6: two consecutive likePhoto (likeComment) calls of one actor on one
\* existing target leave the target's likeCount at its value before the first.
C6_DoubleToggleRestoresCount ==
  /\ (last.op = "likePhoto" /\ SameCall(prev, last) /\ Found(photos, last.target))
       => photos[last.target].likeCount = prev.pre
  /\ (last.op = "likeComment" /\ SameCall(prev, last) /\ Found(comments, last.target))
       => comments[last.target].likeCount = prev.pre

\* a double likeComment that started from a soft-deleted row: the first call
\* cleared the flag, the second set it again
C6_Witness ==
  /\ last.op = "likeComment" /\ SameCall(prev, last)
  /\ prev.preLive = 0 /\ prev.preDeleted = 1
  /\ last.preLive = 1 /\ last.preDeleted = 0
  /\ CommentLikeRows(commentLikes, last.actor, last.target, TRUE) = 1
  /\ comments[last.target].likeCount = prev.pre

\* C7: from no Follow row for (F, U) and U.followerCount = 0, two consecutive
\* followUser(F, U) calls take the count through 0, 1, 0 and leave exactly one
\* Follow row for the pair, with isDeleted = true.
C7_FollowTwiceTogglesOff ==
  ( /\ last.op = "followUser" /\ SameCall(prev, last)
    /\ Found(users, last.target)
    /\ prev.pre = 0 /\ prev.preLive = 0 /\ prev.preDeleted = 0 )
  => /\ last.pre = 1
     /\ users[last.target].followerCount = 0
     /\ FollowRows(follows, last.actor, last.target, TRUE) = 1
     /\ FollowRows(follows, last.actor, last.target, FALSE) = 0

\* C8: once a Like, Follow or CommentLike row of an (actor, target) pair
\* exists, a row of that pair exists in every later state.
C8_RowsNeverRemoved ==
  [][ /\ \A r \in BagToSet(likes) : \E q \in BagToSet(likes') :
             q.userId = r.userId /\ q.photoId = r.photoId
      /\ \A r \in BagToSet(follows) : \E q \in BagToSet(follows') :
             q.followerId = r.followerId /\ q.followingId = r.followingId
      /\ \A r \in BagToSet(commentLikes) : \E q \in BagToSet(commentLikes') :
             q.userId = r.userId /\ q.commentId = r.commentId ]_vars

\* C9: likePhoto with a photoId that matches no photo fails with a
\* NotFoundError and leaves the Like rows as they were.
C9_LikeMissingPhotoFailsClosed ==
  (last.op = "likePhoto" /\ ~Found(photos, last.target))
  => /\ last.err = "NotFoundError"
     /\ LikeRows(likes, last.actor, last.target, FALSE) = last.preLive
     /\ LikeRows(likes, last.actor, last.target, TRUE) = last.preDeleted

\* C10: at most one Like row with isDeleted = false per (userId, photoId),
\* also while likePhoto calls of one user on one photo overlap.
C10_OneActiveLikePerPair ==
  \A r \in BagToSet(likes) : ~r.isDeleted => likes[r] <= 1

\* C11: in both backends, after any sequence of followUser and unfollowUser
\* calls there is at most one Follow row per (followerId, followingId), active
\* or not: followUser on a pair that has a row inserts no second one.
C11_OneFollowRowPerPair ==
  /\ \A r \in BagToSet(follows) :
       FollowRows(follows, r.followerId, r.followingId, FALSE)
         + FollowRows(follows, r.followerId, r.followingId, TRUE) <= 1
  /\ \A a, b \in DOMAIN memFollows :
       (memFollows[a].followerId = memFollows[b].followerId
        /\ memFollows[a].followingId = memFollows[b].followingId) => a = b

\* a pair followed, unfollowed and followed again: the relational row was
\* reactivated, the in-memory entry was removed and set anew under a fresh id
C11_Witness ==
  /\ last.op = "followUser" /\ last.err = "none"
  /\ last.preLive = 0 /\ last.preDeleted = 1
  /\ FollowRows(follows, last.actor, last.target, FALSE) = 1
  /\ Mem_isFollowing(memFollows, last.actor, last.target)
  /\ currentFollowId >= 3

\* C12: after one sequence of likePhoto, followUser, unfollowUser, likeComment
\* and unlikeComment calls on existing targets, applied to both backends from
\* their empty states, every target has the same likeCount and followerCount
\* in both and isFollowing answers the same for every pair.
C12_BackendsAgree ==
  /\ \A p \in DOMAIN photos : photos[p].likeCount = memPhotos[p].likeCount
  /\ \A c \in DOMAIN comments : comments[c].likeCount = memComments[c].likeCount
  /\ \A u \in DOMAIN users : users[u].followerCount = memUsers[u].followerCount
  /\ \A f, g \in DOMAIN users :
       isFollowing(follows, f, g) = Mem_isFollowing(memFollows, f, g)

\* C13: each likePhoto call on an existing photo, made after the previous one
\* completed, performs exactly one row of the toggle table: no row -> one
\* active row and likeCount + 1; active row -> flagged row and likeCount - 1;
\* flagged row -> active row and likeCount + 1.
C13_ToggleTable ==
  (last.op = "likePhoto" /\ Found(photos, last.target)) =>
    LET live == LikeRows(likes, last.actor, last.target, FALSE)
        del == LikeRows(likes, last.actor, last.target, TRUE)
        likeCount == photos[last.target].likeCount
    IN  \/ /\ last.preLive = 0 /\ last.preDeleted = 0
           /\ live = 1 /\ del = 0 /\ likeCount = last.pre + 1
        \/ /\ last.preLive = 1 /\ last.preDeleted = 0
           /\ live = 0 /\ del = 1 /\ likeCount = last.pre - 1
        \/ /\ last.preLive = 0 /\ last.preDeleted = 1
           /\ live = 1 /\ del = 0 /\ likeCount = last.pre + 1

\* the third row of the table right after the second: the call before set the
\* flag, this one cleared it and took likeCount from 0 to 1
C13_Witness ==
  /\ last.op = "likePhoto" /\ SameCall(prev, last)
  /\ prev.preLive = 1 /\ prev.preDeleted = 0 /\ prev.pre = 1
  /\ last.preLive = 0 /\ last.preDeleted = 1 /\ last.pre = 0
  /\ LikeRows(likes, last.actor, last.target, FALSE) = 1
  /\ LikeRows(likes, last.actor, last.target, TRUE) = 0
  /\ photos[last.target].likeCount = 1

\* C14: in the in-memory backend no likeCount, followerCount or commentCount
\* is ever below 0, and an unlikePhoto, unfollowUser or unlikeComment that
\* finds its counter at 0 leaves it at 0.
C14_MemCountersClamped ==
  /\ \A p \in DOMAIN memPhotos : memPhotos[p].likeCount >= 0 /\ memPhotos[p].commentCount >= 0
  /\ \A u \in DOMAIN memUsers : memUsers[u].followerCount >= 0
  /\ \A c \in DOMAIN memComments : memComments[c].likeCount >= 0
  /\ (memLast.op = "unlikePhoto" /\ Found(memPhotos, memLast.target) /\ memLast.pre = 0)
       => memPhotos[memLast.target].likeCount = 0
  /\ (memLast.op = "unfollowUser" /\ Found(memUsers, memLast.target) /\ memLast.pre = 0)
       => memUsers[memLast.target].followerCount = 0
  /\ (memLast.op = "unlikeComment" /\ Found(memComments, memLast.target) /\ memLast.pre = 0)
       => memComments[memLast.target].likeCount = 0

\* unlikePhoto on an existing photo whose likeCount was 0, while a comment
\* has been counted on it
C14_Witness ==
  /\ memLast.op = "unlikePhoto" /\ Found(memPhotos, memLast.target)
  /\ memLast.pre = 0
  /\ memPhotos[memLast.target].likeCount = 0
  /\ memPhotos[memLast.target].commentCount > 0

\* C15: in the in-memory backend, after any sequence of createUser, followUser
\* and unfollowUser calls (a followUser may name the id a later createUser
\* hands out), every existing user's followerCount equals the number of
\* Follow entries whose followingId is that user.
C15_MemFollowerCountIsFollows ==
  \A u \in DOMAIN memUsers :
    memUsers[u].followerCount =
      Cardinality({id \in DOMAIN memFollows : memFollows[id].followingId = u})

\* C16: in both backends, after any sequence of createPhoto and createComment
\* calls made one after the other (a createComment may name a photoId that
\* does not exist when it is called), every existing photo's commentCount
\* equals the number of Comment rows with that photoId.
C16_CommentCountIsComments ==
  /\ \A p \in DOMAIN photos :
       photos[p].commentCount =
         Cardinality({c \in DOMAIN comments : comments[c].photoId = p})
  /\ \A p \in DOMAIN memPhotos :
       memPhotos[p].commentCount =
         Cardinality({c \in DOMAIN memComments : memComments[c].photoId = p})

\* C17: in both backends getFeedPhotos(u) returns a photo only if its owner
\* is u or a user u actively follows, and returns every photo of those owners
\* that is not deleted; after u unfollows v, no photo of v is in u's feed.
C17_FeedMembership ==
  /\ \A u \in DOMAIN users :
       LET Mine(p) == photos[p].userId = u \/ isFollowing(follows, u, photos[p].userId)
           feed == getFeedPhotos(follows, photos, u)
       IN  /\ \A p \in feed : Mine(p)
           /\ \A p \in DOMAIN photos : (Mine(p) /\ ~photos[p].isDeleted) => p \in feed
  /\ \A u \in DOMAIN memUsers :
       LET Mine(p) == \/ memPhotos[p].userId = u
                      \/ Mem_isFollowing(memFollows, u, memPhotos[p].userId)
           feed == Mem_getFeedPhotos(memFollows, memPhotos, u)
       IN  /\ \A p \in feed : Mine(p)
           /\ \A p \in DOMAIN memPhotos : Mine(p) => p \in feed
  /\ (last.op = "unfollowUser" /\ last.err = "none" /\ last.actor # last.target) =>
       /\ \A p \in getFeedPhotos(follows, photos, last.actor) :
            photos[p].userId # last.target
       /\ \A p \in Mem_getFeedPhotos(memFollows, memPhotos, last.actor) :
            memPhotos[p].userId # last.target

\* u followed v, whose photo was in the feed, and has now unfollowed: the
\* photo exists and is in neither backend's feed of u
C17_Witness ==
  /\ last.op = "unfollowUser" /\ last.err = "none" /\ last.actor # last.target
  /\ last.preLive = 1
  /\ \E p \in DOMAIN photos :
       /\ photos[p].userId = last.target
       /\ p \notin getFeedPhotos(follows, photos, last.actor)
       /\ p \notin Mem_getFeedPhotos(memFollows, memPhotos, last.actor)
       /\ p \in getFeedPhotos(follows, photos, last.target)

C19_MissingTargetFailsClosed ==
  [][ /\ \A f \in DOMAIN users, g \in {0} \ DOMAIN users :
           followUser(f, g) =>
             (last'.err # "none" /\ follows' = follows /\ users' = users)
      /\ \A u \in DOMAIN users, c \in {0} \ DOMAIN comments :
           likeComment(u, c) =>
             (last'.err # "none" /\ commentLikes' = commentLikes /\ comments' = comments)
      /\ \A u \in DOMAIN users, p \in {0} \ DOMAIN photos :
           createComment(u, p) =>
             (comments' = comments /\ photos' = photos) ]_vars

\* C20: in the in-memory backend a likePhoto, unlikePhoto, likeComment,
\* unlikeComment or followUser call whose target does not exist ends in an
\* error reported to the caller.
C20_MemMissingTargetReported ==
  /\ (memLast.op \in {"likePhoto", "unlikePhoto"} /\ ~Found(memPhotos, memLast.target))
       => memLast.err # "none"
  /\ (memLast.op \in {"likeComment", "unlikeComment"} /\ ~Found(memComments, memLast.target))
       => memLast.err # "none"
  /\ (memLast.op = "followUser" /\ ~Found(memUsers, memLast.target))
       => memLast.err # "none"

\* C21: when overlapping followUser calls of distinct followers, none of whom
\* had a Follow row, have all completed, the followed user's followerCount has
\* grown by the number of calls, one per Follow row inserted.
C21_ConcurrentFollowsKeepCount ==
  Quiescent =>
    \A u \in DOMAIN users :
      users[u].followerCount =
        SelectCount(follows, {r \in BagToSet(follows) : r.followingId = u})

\* C22: no likePhoto, unlikePhoto, followUser, unfollowUser, likeComment or
\* unlikeComment call, in either backend or through the like, follow and
\* comment-like routes, adds or changes a notification; the notification
\* tables change only in a createNotification, markNotificationAsRead or
\* markAllNotificationsAsRead step.
ToggleOps == {"likePhoto", "unlikePhoto", "followUser", "unfollowUser",
              "likeComment", "unlikeComment"}

NotificationOps == {"createNotification", "markNotificationAsRead",
                    "markAllNotificationsAsRead"}

C22_TogglesLeaveNotifications ==
  [][/\ (calls' # calls /\ last'.op \in ToggleOps) => notifications' = notifications
     /\ (memLast' # memLast /\ memLast'.op \in ToggleOps)
           => memNotifications' = memNotifications
     /\ notifications' # notifications
           => (calls' # calls /\ last'.op \in NotificationOps)
     /\ memNotifications' # memNotifications => memLast'.op \in NotificationOps]_vars

C22_Witness ==
  /\ last.op \in ToggleOps
  /\ last.err = "none"
  /\ memLast.op \in ToggleOps
  /\ \E n \in DOMAIN notifications : notifications[n].read
  /\ notifications = memNotifications

\* C23: in both backends getPhotos() returns the photos ordered by the key
\* (owner's followerCount, likeCount, commentCount, createdAt), each
\* descending.
Ranked(s, photosT, usersT) ==
  \A i \in DOMAIN s, j \in DOMAIN s :
    i < j => getPhotos_orderBy(photosT, usersT, s[i], s[j])

C23_GetPhotosRanked ==
  /\ Ranked(getPhotos(photos, users), photos, users)
  /\ Ranked(Mem_getPhotos(memPhotos), memPhotos, memUsers)

\* the relational half of C23 alone
C23_RelationalRanked == Ranked(getPhotos(photos, users), photos, users)

\* C24: in both backends isFollowing(a, b) is true exactly when the most
\* recent completed followUser / unfollowUser call for the pair (a, b) was
\* followUser, and false when there was no such call: it is false at the
\* start, a completed call for the pair sets it, every other step keeps it.
FollowOps == {"followUser", "unfollowUser"}

C24_IsFollowingIsLastCall ==
  /\ \A f \in 0..MaxUsers, g \in 0..MaxUsers :
        ~isFollowing(follows, f, g) /\ ~Mem_isFollowing(memFollows, f, g)
  /\ [][\A f \in 0..MaxUsers, g \in 0..MaxUsers :
          LET called == /\ calls' # calls
                        /\ last'.op \in FollowOps
                        /\ last'.actor = f
                        /\ last'.target = g
          IN  /\ IF called /\ last'.err = "none"
                 THEN isFollowing(follows', f, g) = (last'.op = "followUser")
                 ELSE isFollowing(follows', f, g) = isFollowing(follows, f, g)
              /\ IF called
                 THEN Mem_isFollowing(memFollows', f, g) = (memLast'.op = "followUser")
                 ELSE Mem_isFollowing(memFollows', f, g)
                        = Mem_isFollowing(memFollows, f, g)]_vars

\* C25: on the relational backend getFollowers(u) returns exactly the users
\* with an active Follow row to u and getLikedUsers(p) exactly the users with
\* an active Like row on p (an unfollowed or un-liked user is not listed),
\* and the sizes of the lists equal followerCount and likeCount.
C25_ListsAreActiveRows ==
  /\ \A u \in DOMAIN users :
        /\ BagToSet(getFollowers(follows, users, u))
             = {f \in DOMAIN users : isFollowing(follows, f, u)}
        /\ BagCardinality(getFollowers(follows, users, u)) = users[u].followerCount
  /\ \A p \in DOMAIN photos :
        /\ BagToSet(getLikedUsers(likes, users, p))
             = {u \in DOMAIN users : LikeRows(likes, u, p, FALSE) > 0}
        /\ BagCardinality(getLikedUsers(likes, users, p)) = photos[p].likeCount

\* C26: no response of a route registered by registerRoutes contains a
\* user's password: the user objects sent by GET /api/users/:userId,
\* PATCH /api/user/profile, GET /api/photos/:photoId/likes and
\* GET /api/users/:userId/followers have no password field.
C26_NoPasswordInResponses ==
  \A u \in 0..MaxUsers, p \in 0..MaxPhotos, bio \in {0, 1} :
    \A body \in GET_api_users(users, u)
                \cup PATCH_api_user_profile_body(users, u, bio)
                \cup GET_api_photos_likes(likes, users, p)
                \cup GET_api_users_followers(follows, users, u) :
      "password" \notin DOMAIN body

\* C27: for every state-changing route (upload, create photo, like, follow,
\* unfollow, create comment, like and unlike comment, profile update,
\* notification read) a request without a session is answered 401 and leaves
\* the storage state and the uploads directory unchanged; the upload route
\* stores no file before the authentication check.
Unauthenticated ==
  \/ \E file \in Files : POST_api_upload(FALSE, file)
  \/ \E u \in UserIds : POST_api_photos(FALSE, u)
  \/ \E u \in UserIds, p \in PhotoIds : POST_api_photos_like(FALSE, u, p)
  \/ \E f \in UserIds, g \in UserIds : POST_api_users_follow(FALSE, f, g)
  \/ \E f \in UserIds, g \in UserIds : POST_api_users_unfollow(FALSE, f, g)
  \/ \E u \in UserIds, p \in PhotoIds : POST_api_photos_comments(FALSE, u, p)
  \/ \E u \in UserIds, c \in CommentIds : POST_api_comments_like(FALSE, u, c)
  \/ \E u \in UserIds, c \in CommentIds : POST_api_comments_unlike(FALSE, u, c)
  \/ \E u \in UserIds, bio \in {0, 1} : PATCH_api_user_profile(FALSE, u, bio)
  \/ \E n \in 0..MaxNotifications : POST_api_notifications_read(FALSE, n)
  \/ \E u \in UserIds : POST_api_notifications_read_all(FALSE, u)

C27_UnauthenticatedChangesNothing ==
  [][Unauthenticated =>
       /\ res' = 401
       /\ UNCHANGED <<users, photos, comments, likes, follows, commentLikes,
                      notifications, uploads>>]_vars

\* C28: N concurrent createComment calls on the same existing photo raise
\* its commentCount by N: once every call has returned, commentCount equals
\* the number of Comment rows of the photo.
C28_ConcurrentCommentsKeepCount ==
  Quiescent => \A p \in DOMAIN photos :
      photos[p].commentCount
        = Cardinality({c \in DOMAIN comments : comments[c].photoId = p})

\* C29: a notification is created with read = false; once read is true it is
\* never false again; markNotificationAsRead(n) changes notification n only;
\* markAllNotificationsAsRead(u) sets read on exactly the notifications whose
\* userId is u and leaves every other notification unchanged.
ReadFlags(t, tNew, op, actor, target) ==
  /\ \A n \in DOMAIN tNew \ DOMAIN t : ~tNew[n].read
  /\ \A n \in DOMAIN t :
        /\ n \in DOMAIN tNew
        /\ tNew[n].userId = t[n].userId
        /\ t[n].read => tNew[n].read
        /\ op = "markNotificationAsRead" =>
              tNew[n].read = (t[n].read \/ n = target)
        /\ op = "markAllNotificationsAsRead" =>
              tNew[n].read = (t[n].read \/ t[n].userId = actor)
        /\ op \notin NotificationOps => tNew[n] = t[n]

C29_ReadFlags ==
  [][LET op == IF calls' # calls THEN last'.op ELSE "none"
     IN  /\ ReadFlags(notifications, notifications', op, last'.actor, last'.target)
         /\ ReadFlags(memNotifications, memNotifications', op, last'.actor,
                      last'.target)]_vars

C29_Witness ==
  /\ last.op = "markNotificationAsRead"
  /\ \E n \in DOMAIN notifications, m \in DOMAIN notifications :
        /\ n = last.target
        /\ notifications[n].read /\ ~notifications[m].read
        /\ memNotifications[n].read /\ ~memNotifications[m].read

\* C30: a relational likePhoto(a, p), likeComment(a, c) or followUser(a, u)
\* changes only relationship rows of that exact pair and only the counter of
\* that target; every other row, counter and table is unchanged.
OtherRows(t, tNew, first, second, a, x) ==
  \A r \in BagToSet(t) \cup BagToSet(tNew) :
    (r[first] # a \/ r[second] # x) => CopiesIn(r, tNew) = CopiesIn(r, t)

OtherCounters(t, tNew, x, counter) ==
  /\ DOMAIN tNew = DOMAIN t
  /\ \A i \in DOMAIN t :
        /\ i # x => tNew[i] = t[i]
        /\ \A f \in DOMAIN t[i] \ {counter} : tNew[i][f] = t[i][f]

====
